---- MODULE Spec2Model ----
(***************************************************************************)
(* A model of the test execution and scoring engine of claude-md-testing:  *)
(* the virtual file system (Sandbox), the API client that owns one, the    *)
(* evaluator pipeline, the metrics helpers and the suite runner with the   *)
(* process-based executor.                                                 *)
(*                                                                         *)
(* Text is modelled as a sequence of one-character strings, so that        *)
(* startsWith / includes / replace / split / normalize are computed as the *)
(* JavaScript runtime computes them.                                       *)
(***************************************************************************)
EXTENDS Integers, Sequences, FiniteSets, TLC

VARIABLES
    files,          \* VirtualFileSystem.files : normalized path -> VirtualFile
    operations,     \* VirtualFileSystem.operations : the operation log
    now,            \* the value Date.now() returns
    ret,            \* the last sandbox call: its arguments and its return value
    running,        \* an executeWithClaudeFile call is in progress
    testsStarted,   \* number of executeWithClaudeFile calls begun on this client
    loop,           \* the locals of the executeWithClaudeFile call of this client
    commandHistory, \* ClaudeClient.commandHistory : the simulated commands run
    evaluators,     \* EvaluatorManager.evaluators : metric name -> unit
    test,           \* the Test handed to the evaluators
    result,         \* the TestResult handed to the evaluators
    conversation,   \* the transcript: ConversationHistory.messages
    metricsRaw,     \* the RawMetrics handed to the evaluators
    scores,         \* what evaluateAll returned
    counts,         \* what countRetries / countDuplicateToolCalls returned
    suite,          \* testSuite.tests of the runTestSuite call
    callbacks,      \* what each callback given to runTestSuite does
    phase,          \* where runTestSuite is: "loop", "running", "returned", "rejected"
    elapsed,        \* Date.now() - startTime of the running agent process
    results,        \* the results array of runTestSuite
    completed,      \* the completed counter of runTestSuite
    workspaces,     \* the workspace directories that exist
    cleanups,       \* the workspace directories fs.rm was called on
    processes,      \* the workspaces whose agent process is running
    waits,          \* per workspace, the wait of runClaudeCode on its process
    notified,       \* the calls of the callbacks made so far, in order
    summary         \* the summary runTestSuite returned

\* the sandbox and the client that owns it
sandboxVars == <<files, operations, now, ret, running, testsStarted, loop, commandHistory>>

evalVars == <<evaluators, test, result, conversation, metricsRaw, scores, counts>>

runVars == <<suite, callbacks, phase, elapsed, results, completed, workspaces, cleanups,
            processes, waits, notified, summary>>

vars == <<sandboxVars, evalVars, runVars>>

-----------------------------------------------------------------------------
(* Bounds of the model *)

MaxOps == 2         \* longest operation log explored between two resets
MaxTests == 2       \* executeWithClaudeFile calls explored on one client

-----------------------------------------------------------------------------
(* Text helpers (JavaScript String semantics on character sequences) *)

\* null / undefined: no text at all (never equal to a text, whose elements are
\* single characters)
Null == <<"null">>

SLASH == "/"

Last(s) == s[Len(s)]

Front(s) == SubSeq(s, 1, Len(s) - 1)

\* s.startsWith(pre)
StartsWith(s, pre) ==
    /\ Len(pre) <= Len(s)
    /\ SubSeq(s, 1, Len(pre)) = pre

\* s.slice(n) for 0 <= n
Slice(s, n) == IF n >= Len(s) THEN <<>> ELSE SubSeq(s, n + 1, Len(s))

\* s.indexOf(sub) + 1 : position of the first occurrence, 0 when there is none
IndexOf(s, sub) ==
    LET hits == {i \in 1..(Len(s) - Len(sub) + 1) : SubSeq(s, i, i + Len(sub) - 1) = sub}
    IN  IF hits = {} THEN 0 ELSE CHOOSE i \in hits : \A j \in hits : i <= j

\* s.includes(sub)
Includes(s, sub) == IndexOf(s, sub) # 0

RECURSIVE Split(_, _)
\* s.split(sep) for a one-character separator
Split(s, sep) ==
    LET i == IndexOf(s, <<sep>>)
    IN  IF i = 0 THEN <<s>>
        ELSE <<SubSeq(s, 1, i - 1)>> \o Split(Slice(s, i), sep)

RECURSIVE Join(_, _)
\* segs.join(sep)
Join(segs, sep) ==
    IF Len(segs) = 0 THEN <<>>
    ELSE IF Len(segs) = 1 THEN segs[1]
    ELSE segs[1] \o <<sep>> \o Join(Tail(segs), sep)

-----------------------------------------------------------------------------
(* path.normalize and path.join (POSIX), as used by normalizePath *)

DOT == <<".">>

DOTDOT == <<".", ".">>

RECURSIVE NormalizeString(_, _, _)
\* resolves "." and ".." segments and drops empty ones; acc is the result so far
NormalizeString(segs, allowAboveRoot, acc) ==
    IF Len(segs) = 0 THEN acc
    ELSE LET seg == Head(segs)
             nxt == IF seg = <<>> \/ seg = DOT THEN acc
                    ELSE IF seg = DOTDOT
                         THEN IF Len(acc) > 0 /\ Last(acc) # DOTDOT THEN Front(acc)
                              ELSE IF allowAboveRoot THEN Append(acc, DOTDOT)
                              ELSE acc
                    ELSE Append(acc, seg)
         IN  NormalizeString(Tail(segs), allowAboveRoot, nxt)

PathNormalize(p) ==
    IF Len(p) = 0 THEN DOT
    ELSE LET isAbsolute == p[1] = SLASH
             trailingSeparator == Last(p) = SLASH
             body == Join(NormalizeString(Split(p, SLASH), ~isAbsolute, <<>>), SLASH)
         IN  IF Len(body) = 0
             THEN IF isAbsolute THEN <<SLASH>>
                  ELSE IF trailingSeparator THEN <<".", SLASH>> ELSE DOT
             ELSE LET b2 == IF trailingSeparator THEN body \o <<SLASH>> ELSE body
                  IN  IF isAbsolute THEN <<SLASH>> \o b2 ELSE b2

PathJoin(a, b) ==
    LET joined == IF Len(a) = 0 THEN b
                  ELSE IF Len(b) = 0 THEN a
                  ELSE a \o <<SLASH>> \o b
    IN  IF Len(joined) = 0 THEN DOT ELSE PathNormalize(joined)

-----------------------------------------------------------------------------
(* The Sandbox: VirtualFileSystem's path normalization *)

WS == <<"w", "o", "r", "k", "s", "p", "a", "c", "e">>

\* the constructor's default root, '/workspace'
rootPath == <<SLASH>> \o WS

workingDirectory == rootPath

normalizePath(filePath) ==
    IF ~StartsWith(filePath, <<SLASH>>)
    THEN PathNormalize(PathJoin(workingDirectory, filePath))
    ELSE PathNormalize(filePath)

-----------------------------------------------------------------------------
(* Inputs: the paths and texts the agent passes to the tools *)

A == <<"a">>

\* spellings the agent may use for a path
Spellings ==
    { <<SLASH>> \o WS \o <<SLASH>> \o A,                \* /workspace/a
      A,                                                \* a
      <<"d", SLASH, ".", ".", SLASH, SLASH, ".", SLASH, "a">>,   \* d/..//./a
      A \o <<SLASH>>,                                   \* a/
      <<"d", SLASH, "b">> }                             \* d/b

Contents == { <<"x">>, <<"x", "y", "x">> }

\* (old_content, new_content) pairs for file_edit
Edits ==
    { <<<<"x">>, <<"y">>>>,
      <<<<"x">>, <<"$", "&">>>>,
      <<<<"z">>, <<"y">>>> }

Dirs == { <<SLASH>>, rootPath, <<"d">> }

\* normalizePath(p) for every path the model passes in, computed once
NP == [p \in Spellings \cup Dirs |-> normalizePath(p)]

-----------------------------------------------------------------------------
(* The Sandbox's operations *)

\* the backtick and the apostrophe, which a TLA+ string cannot hold
BACKTICK == "backtick"

APOSTROPHE == "apostrophe"

\* String.prototype.replace's replacement patterns: $$, $&, $ backtick and
\* $ apostrophe are expanded, any other character (a lone $ included) is copied
RECURSIVE GetSubstitution(_, _, _, _)
GetSubstitution(replacement, matched, before, after) ==
    IF Len(replacement) = 0 THEN <<>>
    ELSE IF replacement[1] = "$" /\ Len(replacement) >= 2
              /\ replacement[2] \in {"$", "&", BACKTICK, APOSTROPHE}
         THEN LET c == replacement[2]
                  sub == IF c = "$" THEN <<"$">>
                         ELSE IF c = "&" THEN matched
                         ELSE IF c = BACKTICK THEN before
                         ELSE after
              IN  sub \o GetSubstitution(Slice(replacement, 2), matched, before, after)
         ELSE <<replacement[1]>>
                  \o GetSubstitution(Tail(replacement), matched, before, after)

\* content.replace(oldContent, newContent) with a string pattern: the first
\* occurrence only; the caller has checked content.includes(oldContent)
StringReplace(content, oldContent, newContent) ==
    LET i == IndexOf(content, oldContent)
        before == SubSeq(content, 1, i - 1)
        after == Slice(content, i - 1 + Len(oldContent))
    IN  before \o GetSubstitution(newContent, oldContent, before, after) \o after

PERMISSIONS == "rw-r--r--"

NoFiles == [k \in {} |-> Null]

Has(fs, k) == k \in DOMAIN fs

FilesSet(fs, k, file) == [x \in (DOMAIN fs) \cup {k} |-> IF x = k THEN file ELSE fs[x]]

\* a delete that leaves the entry where it is
FilesKeep(fs, k) == fs

\* this.files.delete(k)
FilesDelete(fs, k) == [x \in (DOMAIN fs) \ {k} |-> fs[x]]

\* what read returns for the normalized path k: file ? file.content : null
ReadValue(fs, k) == IF Has(fs, k) THEN fs[k].content ELSE Null

Ret(op, path, res) == [op |-> op, path |-> path, result |-> res]

\* a write that stores the entry under the spelling it was given
WriteKeyRaw(filePath) == filePath

\* the key under which write stores the entry
WriteKey(filePath) == NP[filePath]

Write(filePath, content) ==
    /\ Len(operations) < MaxOps
    /\ LET normalizedPath == NP[filePath]
           key == WriteKey(filePath)
           timestamp == now
           file == [path |-> normalizedPath,
                    content |-> content,
                    createdAt |-> IF Has(files, key) THEN files[key].createdAt
                                  ELSE timestamp,
                    modifiedAt |-> timestamp,
                    permissions |-> PERMISSIONS]
       IN  /\ files' = FilesSet(files, key, file)
           /\ operations' = Append(operations,
                  [type |-> "write", path |-> normalizedPath, content |-> content,
                   timestamp |-> timestamp, success |-> TRUE])
           /\ ret' = Ret("write", normalizedPath,
                         [success |-> TRUE, bytesWritten |-> Len(content)])
    /\ UNCHANGED <<now, running, testsStarted>>
    /\ UNCHANGED <<evalVars, runVars>>

Read(filePath) ==
    /\ Len(operations) < MaxOps
    /\ LET normalizedPath == NP[filePath]
           found == Has(files, normalizedPath)
       IN  /\ operations' = Append(operations,
                  [type |-> "read", path |-> normalizedPath, content |-> Null,
                   timestamp |-> now, success |-> found])
           /\ ret' = Ret("read", normalizedPath,
                         [value |-> ReadValue(files, normalizedPath)])
    /\ UNCHANGED <<files, now, running, testsStarted>>
    /\ UNCHANGED <<evalVars, runVars>>

\* an edit that stamps the file it did not find the fragment in
FilesEditTouching(fs, normalizedPath, oldContent, newContent, at) ==
    IF ~Has(fs, normalizedPath) THEN fs
    ELSE IF ~Includes(fs[normalizedPath].content, oldContent)
    THEN [fs EXCEPT ![normalizedPath].modifiedAt = at]
    ELSE [fs EXCEPT ![normalizedPath].content =
                        StringReplace(fs[normalizedPath].content, oldContent, newContent),
                    ![normalizedPath].modifiedAt = at]

\* the entries after edit: file.content and file.modifiedAt are assigned
\* once the file and the fragment were found
FilesEdit(fs, normalizedPath, oldContent, newContent, at) ==
    IF ~Has(fs, normalizedPath) THEN fs
    ELSE IF ~Includes(fs[normalizedPath].content, oldContent) THEN fs
    ELSE [fs EXCEPT ![normalizedPath].content =
                        StringReplace(fs[normalizedPath].content, oldContent, newContent),
                    ![normalizedPath].modifiedAt = at]

Edit(filePath, oldContent, newContent) ==
    /\ LET normalizedPath == NP[filePath]
       IN  /\ files' = FilesEdit(files, normalizedPath, oldContent, newContent, now)
           /\ IF ~Has(files, normalizedPath)
              THEN /\ ret' = Ret("edit", normalizedPath,
                                 [success |-> FALSE, message |-> "File not found"])
                   /\ UNCHANGED operations
              ELSE IF ~Includes(files[normalizedPath].content, oldContent)
              THEN /\ ret' = Ret("edit", normalizedPath,
                                 [success |-> FALSE,
                                  message |-> "Old content not found in file"])
                   /\ UNCHANGED operations
              ELSE /\ Len(operations) < MaxOps
                   /\ operations' = Append(operations,
                          [type |-> "edit", path |-> normalizedPath,
                           content |-> files'[normalizedPath].content, timestamp |-> now,
                           success |-> TRUE])
                   /\ ret' = Ret("edit", normalizedPath,
                                 [success |-> TRUE,
                                  message |-> "File edited successfully"])
    /\ UNCHANGED <<now, running, testsStarted>>
    /\ UNCHANGED <<evalVars, runVars>>

Delete(filePath) ==
    /\ Len(operations) < MaxOps
    /\ LET normalizedPath == NP[filePath]
           success == Has(files, normalizedPath)
       IN  /\ files' = FilesDelete(files, normalizedPath)
           /\ operations' = Append(operations,
                  [type |-> "delete", path |-> normalizedPath, content |-> Null,
                   timestamp |-> now, success |-> success])
           /\ ret' = Ret("delete", normalizedPath,
                         [success |-> success])
    /\ UNCHANGED <<now, running, testsStarted>>
    /\ UNCHANGED <<evalVars, runVars>>

\* the entries listDirectory(dirPath) returns for the stored files fs
ListDirectory(fs, dirPath) ==
    LET normalizedDir == NP[dirPath]
        part0(filePath) == Split(Slice(filePath, Len(normalizedDir) + 1), SLASH)[1]
    IN  {part0(filePath) : filePath \in
            {k \in DOMAIN fs : StartsWith(k, normalizedDir) /\ part0(k) # <<>>}}

List(dirPath) ==
    /\ ret' = Ret("list", NP[dirPath],
                  [entries |-> ListDirectory(files, dirPath)])
    /\ UNCHANGED <<files, operations, now, running, testsStarted>>
    /\ UNCHANGED <<evalVars, runVars>>

\* a reset that clears the files and keeps the log
ResetKeepsLog(ops) == ops

\* what reset leaves in the operation log
ResetOperations(ops) == <<>>

Reset ==
    /\ files' = NoFiles
    /\ operations' = ResetOperations(operations)
    /\ ret' = Ret("reset", Null, [value |-> Null])
    /\ UNCHANGED <<now, running, testsStarted>>
    /\ UNCHANGED <<evalVars, runVars>>

\* the instants the clock takes: one earlier, one later
Times == {1, 2}

\* time passes: Date.now() never decreases
Tick ==
    /\ now + 1 \in Times
    /\ now' = now + 1
    /\ UNCHANGED <<files, operations, ret, running, testsStarted>>
    /\ UNCHANGED <<evalVars, runVars>>

-----------------------------------------------------------------------------
(* The evaluators.  A score is a rational number; it is kept as an integer  *)
(* count of 1/Scale units, so that halves and thirds are exact.             *)

Scale == 2 * 3

MaxErrors == 2

MaxRetries == 2

Min(a, b) == IF a <= b THEN a ELSE b

Max(a, b) == IF a >= b THEN a ELSE b

EMPTY == <<>>

\* the text t, n times over
Repeat(t, n) == [i \in 1..(n * Len(t)) |-> t[((i - 1) % Len(t)) + 1]]

UPPER ==
    <<"A", "B", "C", "D", "E", "F", "G", "H", "I", "J", "K", "L", "M", "N", "O", "P", "Q", "R", "S", "T", "U", "V", "W", "X", "Y", "Z">>

LOWER ==
    <<"a", "b", "c", "d", "e", "f", "g", "h", "i", "j", "k", "l", "m", "n", "o", "p", "q", "r", "s", "t", "u", "v", "w", "x", "y", "z">>

DIGITS == <<"0", "1", "2", "3", "4", "5", "6", "7", "8", "9">>

\* the characters \w matches
WordChars == {UPPER[i] : i \in DOMAIN UPPER} \cup {LOWER[i] : i \in DOMAIN LOWER}
                 \cup {DIGITS[i] : i \in DOMAIN DIGITS} \cup {"_"}

ToLowerCase(text) ==
    [i \in DOMAIN text |->
        IF \E k \in DOMAIN UPPER : UPPER[k] = text[i]
        THEN LOWER[CHOOSE k \in DOMAIN UPPER : UPPER[k] = text[i]]
        ELSE text[i]]

\* text.split(/\W+/): the maximal runs of word characters in order, and an
\* empty string where the text starts or ends with a separator (or is empty)
SplitNonWord(text) ==
    LET n == Len(text)
        starts == {i \in 1..n : text[i] \in WordChars
                                   /\ (i = 1 \/ text[i - 1] \notin WordChars)}
        ends == {j \in 1..n : text[j] \in WordChars
                                 /\ (j = n \/ text[j + 1] \notin WordChars)}
        NthStart(k) == CHOOSE i \in starts : Cardinality({j \in starts : j <= i}) = k
        NthEnd(k) == CHOOSE i \in ends : Cardinality({j \in ends : j <= i}) = k
        words == [k \in 1..Cardinality(starts) |-> SubSeq(text, NthStart(k), NthEnd(k))]
    IN  (IF n = 0 \/ text[1] \notin WordChars THEN <<EMPTY>> ELSE <<>>)
          \o words
          \o (IF n > 0 /\ text[n] \notin WordChars THEN <<EMPTY>> ELSE <<>>)

\* every word of the text, short ones included
extractWords(text) == SplitNonWord(ToLowerCase(text))

extractKeywords(text) ==
    SelectSeq(SplitNonWord(ToLowerCase(text)), LAMBDA word : Len(word) > 3)

SeqIncludes(s, x) == \E i \in DOMAIN s : s[i] = x

\* the match rate as a fraction num / den
calculateKeywordMatch(expected, actual) ==
    IF Len(expected) = 0 THEN [num |-> 1, den |-> 1]
    ELSE [num |-> Len(SelectSeq(expected, LAMBDA keyword : SeqIncludes(actual, keyword))),
          den |-> Len(expected)]

normalizeScore(value) == Min(10 * Scale, Max(0, value))

TESTFAILED == <<"T", "e", "s", "t", " ", "f", "a", "i", "l", "e", "d", ":">>

\* a string is truthy when it is present and not empty
Truthy(text) == text # Null /\ text # EMPTY

IsFailedResponseExact(response) == ~Truthy(response) \/ response = TESTFAILED

IsFailedResponse(response) == ~Truthy(response) \/ Includes(response, TESTFAILED)

CorrectnessEvaluate(t, r, c, m) ==
    LET errs == m.errorsEncountered
        unrecoveredErrors == SelectSeq(errs, LAMBDA e : ~e.recovered)
        s1 == IF Len(errs) > 0
              THEN 10 * Scale - Len(unrecoveredErrors) * 2 * Scale
                     - (Len(errs) - Len(unrecoveredErrors)) * (Scale \div 2)
              ELSE 10 * Scale
        s2 == IF m.retryAttempts > 0 THEN s1 - m.retryAttempts * (Scale \div 2) ELSE s1
        s3 == IF IsFailedResponse(r.response) THEN 0 ELSE s2
        s4 == IF Truthy(t.expectedBehavior)
              THEN LET keywords == extractKeywords(t.expectedBehavior)
                       responseKeywords == extractKeywords(r.response)
                       matchRate == calculateKeywordMatch(keywords, responseKeywords)
                   IN  Min(s3, (matchRate.num * 10 * Scale) \div matchRate.den)
              ELSE s3
    IN  normalizeScore(s4)

\* thresholds whose last one is 30 seconds
benchmarksLenient ==
    [excellent |-> 2000, good |-> 5000, acceptable |-> 10000, slow |-> 30000]

benchmarks == [excellent |-> 2000, good |-> 5000, acceptable |-> 10000, slow |-> 20000]

\* a score that starts from 5 beyond the slow benchmark
SpeedEvaluateFromFive(t, r, c, m) ==
    LET responseTime == r.responseTimeMs
    IN  IF responseTime <= benchmarks.excellent THEN 10 * Scale
        ELSE IF responseTime <= benchmarks.good THEN 8 * Scale
        ELSE IF responseTime <= benchmarks.acceptable THEN 6 * Scale
        ELSE IF responseTime <= benchmarks.slow THEN 4 * Scale
        ELSE normalizeScore((5 - ((responseTime - benchmarks.slow) \div 10000)) * Scale)

SpeedEvaluate(t, r, c, m) ==
    LET responseTime == r.responseTimeMs
    IN  IF responseTime <= benchmarks.excellent THEN 10 * Scale
        ELSE IF responseTime <= benchmarks.good THEN 8 * Scale
        ELSE IF responseTime <= benchmarks.acceptable THEN 6 * Scale
        ELSE IF responseTime <= benchmarks.slow THEN 4 * Scale
        ELSE LET overSlowBy == responseTime - benchmarks.slow
                 penalty == overSlowBy \div 10000
             IN  normalizeScore((3 - penalty) * Scale)

\* JSON.stringify of an object of string-valued fields, in the order of its keys
Quote(t) == <<"\"">> \o t \o <<"\"">>

RECURSIVE StringifyFields(_)
StringifyFields(fields) ==
    IF fields = <<>> THEN <<>>
    ELSE Quote(fields[1][1]) \o <<":">> \o Quote(fields[1][2])
           \o (IF Len(fields) > 1 THEN <<",">> ELSE <<>>)
           \o StringifyFields(Tail(fields))

JSONStringify(parameters) == <<"{">> \o StringifyFields(parameters) \o <<"}">>

\* an optional value: <<>> when undefined, <<v>> when defined
Undefined == <<>>

Some(v) == <<v>>

IsDefined(opt) == Len(opt) > 0

Signature(call) == call.toolName \o <<":">> \o JSONStringify(call.parameters)

\* message.toolCalls?.forEach(...), with the map of signatures seen so far
RECURSIVE DuplicateScanCalls(_, _)
DuplicateScanCalls(calls, st) ==
    IF calls = <<>> THEN st
    ELSE LET signature == Signature(Head(calls))
             count == (IF signature \in DOMAIN st.toolCallSignatures
                       THEN st.toolCallSignatures[signature] ELSE 0) + 1
         IN  DuplicateScanCalls(Tail(calls),
                 [toolCallSignatures |->
                     [g \in DOMAIN st.toolCallSignatures \cup {signature} |->
                         IF g = signature THEN count ELSE st.toolCallSignatures[g]],
                  duplicates |-> IF count > 1 THEN st.duplicates + 1 ELSE st.duplicates])

RECURSIVE DuplicateScan(_, _)
DuplicateScan(messages, st) ==
    IF messages = <<>> THEN st
    ELSE DuplicateScan(Tail(messages),
             IF IsDefined(Head(messages).toolCalls)
             THEN DuplicateScanCalls(Head(messages).toolCalls[1], st)
             ELSE st)

\* a count that sees no duplicate
noDuplicateToolCalls(conv) == 0

countDuplicateToolCalls(conv) ==
    DuplicateScan(conv.messages,
                  [toolCallSignatures |-> [g \in {} |-> 0], duplicates |-> 0]).duplicates

TokenEfficiencyEvaluate(t, r, c, m) ==
    LET inputTokens == r.tokensInput
        outputTokens == r.tokensOutput
        thinkingTokens == IF IsDefined(r.tokensThinking) THEN r.tokensThinking[1] ELSE 0
        totalTokens == inputTokens + outputTokens + thinkingTokens
        \* outputRatio = outputTokens / inputTokens: NaN for 0/0 (every
        \* comparison false), Infinity for n/0
        ratioScore ==
            IF inputTokens = 0
            THEN IF outputTokens = 0 THEN 10 ELSE 5 - 3
            ELSE IF 2 * outputTokens < inputTokens THEN 6
            ELSE IF outputTokens > 5 * inputTokens
                 THEN 5 - Min(3, (outputTokens - 5 * inputTokens) \div (2 * inputTokens))
            ELSE IF outputTokens > 3 * inputTokens THEN 8
            ELSE 10
        totalScore == IF totalTokens > 10000 THEN 5
                      ELSE IF totalTokens > 5000 THEN 7
                      ELSE IF totalTokens > 3000 THEN 9
                      ELSE 10
        duplicateTools == countDuplicateToolCalls(c)
        wasteScore == IF duplicateTools > 0 THEN 10 - duplicateTools * 2 ELSE 10
        finalScore == ((ratioScore + totalScore + wasteScore) * Scale) \div 3
    IN  normalizeScore(finalScore)

\* msg.toolCalls.forEach(...) of countRetries, with the last call seen so far
RECURSIVE RetryScanCalls(_, _)
RetryScanCalls(calls, st) ==
    IF calls = <<>> THEN st
    ELSE LET call == Head(calls)
             same == /\ IsDefined(st.lastToolCall)
                     /\ st.lastToolCall[1].toolName = call.toolName
                     /\ JSONStringify(st.lastToolCall[1].parameters)
                          = JSONStringify(call.parameters)
         IN  RetryScanCalls(Tail(calls),
                 [lastToolCall |-> Some(call),
                  retries |-> IF same THEN st.retries + 1 ELSE st.retries])

\* a scan that forgets the last call at every message
RECURSIVE RetryScanPerMessage(_, _)
RetryScanPerMessage(messages, st) ==
    IF messages = <<>> THEN st
    ELSE RetryScanPerMessage(Tail(messages),
             IF IsDefined(Head(messages).toolCalls)
             THEN RetryScanCalls(Head(messages).toolCalls[1],
                                 [st EXCEPT !.lastToolCall = Undefined])
             ELSE st)

RECURSIVE RetryScan(_, _)
RetryScan(messages, st) ==
    IF messages = <<>> THEN st
    ELSE RetryScan(Tail(messages),
             IF IsDefined(Head(messages).toolCalls)
             THEN RetryScanCalls(Head(messages).toolCalls[1], st)
             ELSE st)

\* a count that compares the tool names only
countRetriesByName(conv) ==
    LET NameOnly(call) == [call EXCEPT !.parameters = <<>>]
        Named(message) ==
            IF IsDefined(message.toolCalls)
            THEN [message EXCEPT !.toolCalls =
                     Some([i \in DOMAIN message.toolCalls[1] |->
                              NameOnly(message.toolCalls[1][i])])]
            ELSE message
    IN  RetryScan([i \in DOMAIN conv.messages |-> Named(conv.messages[i])],
                  [lastToolCall |-> Undefined, retries |-> 0]).retries

countRetries(conv) ==
    RetryScan(conv.messages, [lastToolCall |-> Undefined, retries |-> 0]).retries

\* countEditsWithoutRead: the forEach with the set of files read so far
RECURSIVE EditsWithoutReadScan(_, _, _)
EditsWithoutReadScan(fileOps, readFiles, editsWithoutRead) ==
    IF fileOps = <<>> THEN editsWithoutRead
    ELSE LET op == Head(fileOps)
         IN  IF op.type = "read"
             THEN EditsWithoutReadScan(Tail(fileOps), readFiles \cup {op.path},
                                       editsWithoutRead)
             ELSE IF op.type \in {"edit", "write"}
                     /\ op.path \notin readFiles /\ op.type = "edit"
             THEN EditsWithoutReadScan(Tail(fileOps), readFiles, editsWithoutRead + 1)
             ELSE EditsWithoutReadScan(Tail(fileOps), readFiles, editsWithoutRead)

countEditsWithoutRead(fileOps) == EditsWithoutReadScan(fileOps, {}, 0)

errorHandlingKeywords ==
    << <<"t", "r", "y">>, <<"c", "a", "t", "c", "h">>, <<"e", "r", "r", "o", "r">>, <<"e", "x", "c", "e", "p", "t", "i", "o", "n">>,
       <<"h", "a", "n", "d", "l", "e">>, <<"v", "a", "l", "i", "d", "a", "t", "e">> >>

checkErrorHandling(conv) ==
    \E i \in DOMAIN conv.messages :
        /\ conv.messages[i].role = "assistant"
        /\ \E k \in DOMAIN errorHandlingKeywords :
              Includes(ToLowerCase(conv.messages[i].content), errorHandlingKeywords[k])

checkFileStructure(fileOps) ==
    \E i \in DOMAIN fileOps :
        /\ Includes(fileOps[i].path, <<SLASH>>)
        /\ Len(Split(fileOps[i].path, SLASH)) > 2

\* [...fileOperations].sort((a, b) => a.timestamp - b.timestamp): a stable sort
RECURSIVE InsertByTimestamp(_, _)
InsertByTimestamp(sorted, op) ==
    IF sorted = <<>> THEN <<op>>
    ELSE IF Last(sorted).timestamp <= op.timestamp THEN Append(sorted, op)
    ELSE Append(InsertByTimestamp(Front(sorted), op), Last(sorted))

RECURSIVE SortByTimestamp(_)
SortByTimestamp(ops) ==
    IF ops = <<>> THEN <<>>
    ELSE InsertByTimestamp(SortByTimestamp(Front(ops)), Last(ops))

Abs(x) == IF x < 0 THEN 0 - x ELSE x

\* the consistency as a fraction num / den
checkOperationConsistency(m) ==
    LET ops == SortByTimestamp(m.fileOperations)
        consistentSequences ==
            Cardinality({i \in 2..Len(ops) :
                \/ ops[i].path = ops[i - 1].path
                \/ Abs(ops[i].timestamp - ops[i - 1].timestamp) < 5000})
    IN  IF Len(ops) < 2 THEN [num |-> 1, den |-> 1]
        ELSE [num |-> consistentSequences, den |-> Len(ops) - 1]

CodeQualityEvaluate(t, r, c, m) ==
    LET fileOps == m.fileOperations
        editsWithoutRead == countEditsWithoutRead(fileOps)
        s1 == IF editsWithoutRead > 0
              THEN 8 * Scale - editsWithoutRead * ((3 * Scale) \div 2) ELSE 8 * Scale
        hasErrorHandling == checkErrorHandling(c)
        s2 == IF ~hasErrorHandling /\ Len(m.errorsEncountered) > 0
              THEN s1 - 2 * Scale ELSE s1
        hasGoodStructure == checkFileStructure(fileOps)
        s3 == IF hasGoodStructure THEN s2 + Scale ELSE s2
        consistency == checkOperationConsistency(m)
        s4 == s3 + ((consistency.num * 2 * Scale) \div consistency.den) - Scale
    IN  normalizeScore(s4)

PlaceholderEvaluate(t, r, c, m) ==
    LET s1 == IF Len(m.errorsEncountered) > 0 THEN 7 - 1 ELSE 7
        s2 == IF Len(r.response) < 50 THEN s1 - 2
              ELSE IF Len(r.response) > 500 THEN s1 + 1
              ELSE s1
    IN  normalizeScore(s2 * Scale)

-----------------------------------------------------------------------------
(* The evaluator registry.  A Map keeps its keys in insertion order, so the *)
(* registry is a sequence of units with distinct names.                     *)

\* a unit: a baseline evaluator (kind = its class), or a custom one whose
\* evaluate returns value ("returns") or throws ("throws")
Unit(metricName, kind, value) == [metricName |-> metricName, kind |-> kind, value |-> value]

\* a registry that keeps the prior unit of the name as well
registerAlso(evs, evaluator) == Append(evs, evaluator)

\* this.evaluators.set(evaluator.metricName, evaluator)
registerEvaluator(evs, evaluator) ==
    IF \E i \in DOMAIN evs : evs[i].metricName = evaluator.metricName
    THEN [i \in DOMAIN evs |->
             IF evs[i].metricName = evaluator.metricName THEN evaluator ELSE evs[i]]
    ELSE Append(evs, evaluator)

RECURSIVE RegisterAll(_, _)
RegisterAll(evs, units) ==
    IF units = <<>> THEN evs
    ELSE RegisterAll(registerEvaluator(evs, Head(units)), Tail(units))

registerDefaultEvaluators ==
    RegisterAll(<<>>,
        << Unit("correctness", "correctness", 0),
           Unit("speed", "speed", 0),
           Unit("tokenEfficiency", "tokenEfficiency", 0),
           Unit("codeQuality", "codeQuality", 0),
           Unit("documentation", "placeholder", 0),
           Unit("security", "placeholder", 0),
           Unit("instructionAdherence", "placeholder", 0),
           Unit("consistency", "placeholder", 0),
           Unit("errorRecovery", "placeholder", 0) >>)

\* evaluator.evaluate(...): the number returned, or threw
Evaluate(unit, t, r, c, m) ==
    CASE unit.kind = "correctness" ->
             [threw |-> FALSE, value |-> CorrectnessEvaluate(t, r, c, m)]
      [] unit.kind = "speed" ->
             [threw |-> FALSE, value |-> SpeedEvaluate(t, r, c, m)]
      [] unit.kind = "tokenEfficiency" ->
             [threw |-> FALSE, value |-> TokenEfficiencyEvaluate(t, r, c, m)]
      [] unit.kind = "codeQuality" ->
             [threw |-> FALSE, value |-> CodeQualityEvaluate(t, r, c, m)]
      [] unit.kind = "placeholder" ->
             [threw |-> FALSE, value |-> PlaceholderEvaluate(t, r, c, m)]
      [] unit.kind = "returns" -> [threw |-> FALSE, value |-> unit.value]
      [] unit.kind = "throws" -> [threw |-> TRUE, value |-> 0]

NoScores == [n \in {} |-> 0]

\* scores[metricName] = value
SetScore(sc, metricName, value) ==
    [n \in DOMAIN sc \cup {metricName} |-> IF n = metricName THEN value ELSE sc[n]]

\* the loop of evaluateAll over the registry, in its order
RECURSIVE evaluateAll(_, _, _, _, _, _)
evaluateAll(evs, sc, t, r, c, m) ==
    IF evs = <<>> THEN sc
    ELSE LET outcome == Evaluate(Head(evs), t, r, c, m)
         IN  evaluateAll(Tail(evs),
                         SetScore(sc, Head(evs).metricName,
                                  IF outcome.threw THEN 5 * Scale ELSE outcome.value),
                         t, r, c, m)

RegisterEvaluator(evaluator) ==
    /\ evaluators' = registerEvaluator(evaluators, evaluator)
    /\ UNCHANGED <<test, result, conversation, metricsRaw, scores, counts>>
    /\ UNCHANGED <<sandboxVars, runVars>>

EvaluateAll ==
    /\ scores' = evaluateAll(evaluators, NoScores, test, result, conversation, metricsRaw)
    /\ UNCHANGED <<evaluators, test, result, conversation, metricsRaw, counts>>
    /\ UNCHANGED <<sandboxVars, runVars>>

-----------------------------------------------------------------------------
(* Inputs of the evaluators *)

ToolCall(toolName, parameters) == [toolName |-> toolName, parameters |-> parameters]

READ_A == ToolCall(<<"f", "i", "l", "e", "_", "r", "e", "a", "d">>,
                   << <<<<"p", "a", "t", "h">>, <<"a">>>> >>)

READ_B == ToolCall(<<"f", "i", "l", "e", "_", "r", "e", "a", "d">>,
                   << <<<<"p", "a", "t", "h">>, <<"b">>>> >>)

WRITE_A == ToolCall(<<"f", "i", "l", "e", "_", "w", "r", "i", "t", "e">>,
                    << <<<<"p", "a", "t", "h">>, <<"a">>>>,
                       <<<<"c", "o", "n", "t", "e", "n", "t">>, <<"x">>>> >>)

Message(role, content, toolCalls) == [role |-> role, content |-> content, toolCalls |-> toolCalls]

FileOp(type, path, timestamp) == [type |-> type, path |-> path, timestamp |-> timestamp]

Responses ==
    { EMPTY,
      <<"T", "e", "s", "t", " ", "f", "a", "i", "l", "e", "d", ":", " ", "b", "o", "o", "m">>,
      <<"d", "o", "n", "e">>,
      <<"w", "r", "o", "t", "e", " ", "t", "h", "e", " ", "f", "i", "l", "e", " ", "a", "n", "d", " ", "h", "a", "n", "d", "l", "e", "d", " ", "e", "r", "r", "o", "r">>,
      Repeat(<<"f", "i", "l", "e", " ">>, 12),
      <<"w", "r", "o", "t", "e", " ", "t", "h", "e", " ", "f", "i", "l", "e", " ">> \o Repeat(<<"x">>, 500) }

ExpectedBehaviors ==
    { Null,
      EMPTY,
      <<"d", "o", " ", "i", "t">>,
      <<"w", "r", "i", "t", "e", "s", " ", "t", "h", "e", " ", "f", "i", "l", "e">>,
      <<"F", "a", "i", "l", "e", "d", " ", "t", "e", "s", "t">> }

RECURSIVE SeqsUpTo(_, _)
SeqsUpTo(S, n) ==
    IF n = 0 THEN {<<>>}
    ELSE LET shorter == SeqsUpTo(S, n - 1)
         IN  shorter \cup {Append(s, x) : s \in shorter, x \in S}

ErrorLists == SeqsUpTo({[recovered |-> b] : b \in BOOLEAN}, MaxErrors)

\* the remaining inputs, varied together
Scenarios ==
    { [responseTimeMs |-> 1500, tokensInput |-> 100, tokensOutput |-> 200,
       tokensThinking |-> Undefined,
       messages |-> << Message("assistant", <<"d", "o", "n", "e">>,
                               Some(<<READ_A, WRITE_A>>)) >>,
       fileOperations |-> << FileOp("read", <<"a">>, 1000), FileOp("edit", <<"a">>, 2000) >>],
      [responseTimeMs |-> 45000, tokensInput |-> 1000, tokensOutput |-> 9500,
       tokensThinking |-> Some(50),
       messages |-> << Message("user", <<"f", "i", "x", " ", "i", "t">>, Undefined),
                       Message("assistant", <<"I", " ", "w", "i", "l", "l", " ", "H", "a", "n", "d", "l", "e", " ", "i", "t">>,
                               Some(<<READ_A, READ_A, READ_B, READ_A>>)) >>,
       fileOperations |-> << FileOp("edit", <<"s", "r", "c", "/", "l", "i", "b", "/", "a">>, 9000),
                             FileOp("write", <<"b">>, 1000),
                             FileOp("read", <<"b">>, 20000) >>],
      [responseTimeMs |-> 0, tokensInput |-> 0, tokensOutput |-> 0,
       tokensThinking |-> Undefined,
       messages |-> <<>>,
       fileOperations |-> <<>>] }

ResultOf(response, sc) ==
    [response |-> response, responseTimeMs |-> sc.responseTimeMs,
     tokensInput |-> sc.tokensInput, tokensOutput |-> sc.tokensOutput,
     tokensThinking |-> sc.tokensThinking]

MetricsOf(errors, retryAttempts, sc) ==
    [fileOperations |-> sc.fileOperations, errorsEncountered |-> errors,
     retryAttempts |-> retryAttempts]

NoCount == [done |-> FALSE, value |-> 0]

NoCounts == [retries |-> NoCount, duplicates |-> NoCount]

\* the units a caller registers: custom ones, and the baseline speed unit again
CustomUnits ==
    { Unit("customMetric", "returns", 11 * Scale),
      Unit("customMetric", "returns", (0 - 1) * Scale),
      Unit("customMetric", "throws", 0),
      Unit("speed", "throws", 0),
      Unit("speed", "speed", 0) }

-----------------------------------------------------------------------------
(* The transcript and the counts extracted from it once it is complete *)

MaxMessages == 2

MaxCalls == 3

ToolCalls == {READ_A, READ_B, WRITE_A}

RECURSIVE CallCount(_)
CallCount(messages) ==
    IF messages = <<>> THEN 0
    ELSE (IF IsDefined(Head(messages).toolCalls)
          THEN Len(Head(messages).toolCalls[1]) ELSE 0) + CallCount(Tail(messages))

\* the messages a transcript with n tool calls to go can get next: a user
\* turn, an assistant turn of the process runner (no toolCalls), an assistant
\* turn of the API client with the tool calls it made
NewMessages(n) ==
    { Message("user", <<"f", "i", "x", " ", "i", "t">>, Undefined),
      Message("assistant", <<"d", "o", "n", "e">>, Undefined) }
      \cup { Message("assistant", <<"d", "o", "n", "e">>, Some(calls)) :
                 calls \in SeqsUpTo(ToolCalls, n) }

\* conversationMessages.push(message), the message complete with its calls
AddMessage(message) ==
    /\ counts = NoCounts
    /\ Len(conversation.messages) < MaxMessages
    /\ conversation' = [messages |-> Append(conversation.messages, message)]
    /\ UNCHANGED <<evaluators, test, result, metricsRaw, scores, counts>>
    /\ UNCHANGED <<sandboxVars, runVars>>

CountRetries ==
    /\ counts' = [counts EXCEPT !.retries = [done |-> TRUE, value |-> countRetries(conversation)]]
    /\ UNCHANGED <<evaluators, test, result, conversation, metricsRaw, scores>>
    /\ UNCHANGED <<sandboxVars, runVars>>

CountDuplicateToolCalls ==
    /\ counts' = [counts EXCEPT
                     !.duplicates = [done |-> TRUE,
                                     value |-> countDuplicateToolCalls(conversation)]]
    /\ UNCHANGED <<evaluators, test, result, conversation, metricsRaw, scores>>
    /\ UNCHANGED <<sandboxVars, runVars>>

-----------------------------------------------------------------------------
(* The process runner: ClaudeCodeRunner.executeTest runs one test in a new  *)
(* workspace directory, with the agent as a child process under a timer.    *)

MaxSuite == 2

DEFAULT_TIMEOUT == 120000

\* the step of the clock of a run, in milliseconds
TimeUnit == 60 * 1000

\* new ClaudeCodeRunner({}) as the TestRunner makes it from an empty config
runnerConfig == [timeout |-> DEFAULT_TIMEOUT]

testRunId == 1

CLAUDE_MD == <<"C", "L", "A", "U", "D", "E", ".", "m", "d">>

claudeMdContent == <<"b", "e", " ", "b", "r", "i", "e", "f">>

TIMEOUT_MARK == <<"\n">> \o <<"[", "T", "I", "M", "E", "O", "U", "T", "]">>

PROCESS_TIMED_OUT == <<"P", "r", "o", "c", "e", "s", "s", " ", "t", "i", "m", "e", "d", " ", "o", "u", "t">>

NON_ZERO_EXIT == <<"P", "r", "o", "c", "e", "s", "s", " ", "e", "x", "i", "t", "e", "d", " ", "w", "i", "t", "h", " ", "n", "o", "n", "-", "z", "e", "r", "o", " ", "c", "o", "d", "e">>

EndsWith(s, suffix) ==
    Len(s) >= Len(suffix) /\ SubSeq(s, Len(s) - Len(suffix) + 1, Len(s)) = suffix

\* Math.ceil(text.length / 4)
estimateTokens(text) == (Len(text) + 3) \div 4

\* test.timeout || this.config.timeout
TimeoutOf(t) ==
    IF IsDefined(t.timeout) /\ t.timeout[1] # 0 THEN t.timeout[1] ELSE runnerConfig.timeout

\* what runClaudeCode resolves with when the timer fires
TimeoutResult(output, duration) ==
    [output |-> output \o TIMEOUT_MARK, exitCode |-> 124, duration |-> duration,
     error |-> Some(PROCESS_TIMED_OUT)]

\* ... when the process closes; code is <<>> when a signal ended it
CloseResult(output, errorOutput, code, duration) ==
    [output |-> IF output # EMPTY THEN output ELSE errorOutput,
     exitCode |-> IF IsDefined(code) THEN code[1] ELSE 0,
     duration |-> duration,
     error |-> IF errorOutput # EMPTY THEN Some(errorOutput) ELSE Undefined]

\* ... when the process cannot be spawned
ErrorResult(message, duration) ==
    [output |-> <<"E", "r", "r", "o", "r", " ", "e", "x", "e", "c", "u", "t", "i", "n", "g", " ", "c", "l", "a", "u", "d", "e", ":", " ">> \o message,
     exitCode |-> 1, duration |-> duration, error |-> Some(message)]

ErrorEvent(type, message) == [type |-> type, message |-> message, recovered |-> FALSE]

collectMetrics(workspaceFiles, executionResult) ==
    [allToolCalls |-> <<>>,
     fileOperations |->
        LET kept == SelectSeq(workspaceFiles, LAMBDA file : ~EndsWith(file, CLAUDE_MD))
        IN  [i \in DOMAIN kept |->
                [type |-> "write", path |-> kept[i], success |-> TRUE]],
     commandsExecuted |-> <<>>,
     errorsEncountered |->
        IF IsDefined(executionResult.error) \/ executionResult.exitCode # 0
        THEN << ErrorEvent("execution_error",
                           IF IsDefined(executionResult.error)
                           THEN executionResult.error[1] ELSE NON_ZERO_EXIT) >>
        ELSE <<>>,
     retryAttempts |-> 0]

\* the TestResult executeTest returns
ExecutedResult(t, workspaceFiles, executionResult) ==
    [testRunId |-> testRunId,
     testId |-> t.id,
     prompt |-> t.prompt,
     response |-> executionResult.output,
     tokensInput |-> estimateTokens(t.prompt \o claudeMdContent),
     tokensOutput |-> estimateTokens(executionResult.output),
     responseTimeMs |-> executionResult.duration,
     scores |-> [correctness |-> 7 * Scale,
                 speed |-> IF executionResult.duration < 30000 THEN 9 * Scale ELSE 6 * Scale,
                 tokenEfficiency |-> 7 * Scale,
                 documentation |-> 7 * Scale,
                 codeQuality |-> 7 * Scale,
                 security |-> 7 * Scale,
                 instructionAdherence |-> 7 * Scale,
                 consistency |-> 7 * Scale,
                 errorRecovery |-> IF executionResult.exitCode = 0
                                   THEN 8 * Scale ELSE 4 * Scale],
     conversation |->
        [messages |-> << Message("user", t.prompt, Undefined),
                         Message("assistant", executionResult.output, Undefined) >>,
         totalDurationMs |-> executionResult.duration],
     metricsRaw |-> collectMetrics(workspaceFiles, executionResult)]

\* a failed result that carries the neutral score in place of 0
createNeutralResult(t, message) ==
    [testRunId |-> testRunId,
     testId |-> t.id,
     prompt |-> t.prompt,
     response |-> TESTFAILED \o <<" ">> \o message,
     tokensInput |-> 0,
     tokensOutput |-> 0,
     responseTimeMs |-> 0,
     scores |-> [correctness |-> 5 * Scale, speed |-> 5 * Scale,
                 tokenEfficiency |-> 5 * Scale, documentation |-> 5 * Scale,
                 codeQuality |-> 5 * Scale, security |-> 5 * Scale,
                 instructionAdherence |-> 5 * Scale, consistency |-> 5 * Scale,
                 errorRecovery |-> 5 * Scale],
     conversation |-> [messages |-> <<>>, totalDurationMs |-> 0],
     metricsRaw |-> [allToolCalls |-> <<>>, fileOperations |-> <<>>,
                     commandsExecuted |-> <<>>,
                     errorsEncountered |-> << ErrorEvent("test_failure", message) >>,
                     retryAttempts |-> 0]]

\* the TestResult the TestRunner makes for a test whose execution threw
createFailedResult(t, message) ==
    [testRunId |-> testRunId,
     testId |-> t.id,
     prompt |-> t.prompt,
     response |-> TESTFAILED \o <<" ">> \o message,
     tokensInput |-> 0,
     tokensOutput |-> 0,
     responseTimeMs |-> 0,
     scores |-> [correctness |-> 0, speed |-> 0, tokenEfficiency |-> 0,
                 documentation |-> 0, codeQuality |-> 0, security |-> 0,
                 instructionAdherence |-> 0, consistency |-> 0, errorRecovery |-> 0],
     conversation |-> [messages |-> <<>>, totalDurationMs |-> 0],
     metricsRaw |-> [allToolCalls |-> <<>>, fileOperations |-> <<>>,
                     commandsExecuted |-> <<>>,
                     errorsEncountered |-> << ErrorEvent("test_failure", message) >>,
                     retryAttempts |-> 0]]

-----------------------------------------------------------------------------
(* TestRunner.runTestSuite: the loop over the tests of a suite *)

\* how late after its delay the timer may fire, in steps of the clock
MaxLate == 1

\* the i-th test of a suite; timeout is a number, or undefined, or 0
TestAt(i) ==
    [id |-> <<"t", DIGITS[i + 1]>>,
     prompt |-> <<"f", "i", "x", " ">> \o <<DIGITS[i + 1]>>,
     timeout |-> CASE i % 3 = 1 -> Some(TimeUnit)
                   [] i % 3 = 2 -> Undefined
                   [] OTHER -> Some(0),
     expectedBehavior |-> Null]

\* what a callback does when called: it is not given, it returns, it throws
Callbacks(onTestStart, onTestComplete, onProgress) ==
    [onTestStart |-> onTestStart, onTestComplete |-> onTestComplete,
     onProgress |-> onProgress]

NoCallbacks == Callbacks("absent", "absent", "absent")

CallbackConfigs ==
    { NoCallbacks,
      Callbacks("returns", "returns", "returns"),
      Callbacks("throws", "returns", "returns"),
      Callbacks("returns", "throws", "returns"),
      Callbacks("returns", "returns", "throws") }

CALLBACK_ERROR == <<"c", "a", "l", "l", "b", "a", "c", "k">>

\* how the child process can end by itself: its output, and the files it left
ProcessEnds ==
    { [output |-> <<"o", "k">>, errorOutput |-> EMPTY, code |-> Some(0),
       files |-> <<CLAUDE_MD, <<"o", "u", "t", ".", "t", "x", "t">>>>],
      [output |-> EMPTY, errorOutput |-> <<"b", "o", "o", "m">>, code |-> Some(1),
       files |-> <<CLAUDE_MD>>],
      [output |-> <<"o", "k">>, errorOutput |-> EMPTY, code |-> Undefined,
       files |-> <<CLAUDE_MD>>] }

\* stdout collected by the time the timer fires
PartialOutputs == { EMPTY, <<"o", "k">> }

MKDIR_ERROR == <<"E", "A", "C", "C", "E", "S", ":", " ", "m", "k", "d", "i", "r">>

SetupErrors == { MKDIR_ERROR, <<"E", "N", "O", "S", "P", "C", ":", " ", "w", "r", "i", "t", "e">> }

SPAWN_ERROR == <<"s", "p", "a", "w", "n", " ", "c", "l", "a", "u", "d", "e", " ", "E", "N", "O", "E", "N", "T">>

CurrentTest == suite[completed + 1]

workspaceId(t) == <<"test", testRunId, t.id>>

\* a call of a callback: of onTestStart with a test, of onTestComplete with
\* a test and its result, of onProgress with two counts
Notification(callback, t, r, done, total) ==
    [callback |-> callback, test |-> t, result |-> r, completed |-> done, total |-> total]

TestStart(t) == Notification("onTestStart", t.id, Undefined, 0, 0)

TestComplete(t, r) == Notification("onTestComplete", t.id, Some(r), 0, 0)

ProgressMade(done, total) == Notification("onProgress", <<>>, Undefined, done, total)

\* a runner that calls each callback for the first test only
NotifyOnce(log, call) ==
    IF callbacks[call.callback] = "absent"
          \/ \E i \in DOMAIN log : log[i].callback = call.callback
    THEN log ELSE Append(log, call)

\* callbacks?.onX?.(...): the callback is called when it is given
Notify(log, call) ==
    IF callbacks[call.callback] = "absent" THEN log ELSE Append(log, call)

\* completed++ and onProgress
Progress(res, log) ==
    [results |-> res, completed |-> completed + 1,
     notified |-> Notify(log, ProgressMade(completed + 1, Len(suite))),
     phase |-> IF callbacks.onProgress = "throws" THEN "rejected" ELSE "loop"]

\* a catch block that makes the failed result and does not keep it
DropFailed(res, failedResult) == res

\* results.push(failedResult)
PushFailed(res, failedResult) == Append(res, failedResult)

\* the catch block: createFailedResult, push, onTestComplete
Catch(t, res, message, log) ==
    LET failedResult == createFailedResult(t, message)
        pushed == PushFailed(res, failedResult)
        called == Notify(log, TestComplete(t, failedResult))
    IN  IF callbacks.onTestComplete = "throws"
        THEN [results |-> pushed, completed |-> completed, notified |-> called,
              phase |-> "rejected"]
        ELSE Progress(pushed, called)

\* the try block after executeTest returned: push, onTestComplete
Returned(t, r, log) ==
    LET pushed == Append(results, r)
        called == Notify(log, TestComplete(t, r))
    IN  IF callbacks.onTestComplete = "throws"
        THEN Catch(t, pushed, CALLBACK_ERROR, called)
        ELSE Progress(pushed, called)

\* the rest of the iteration, from the state it ends in
EndIteration(end) ==
    /\ results' = end.results
    /\ completed' = end.completed
    /\ notified' = end.notified
    /\ phase' = end.phase

\* the wait of runClaudeCode on a process: its timer, and the value its
\* promise is resolved with
NewWait == [timer |-> "armed", value |-> Undefined]

NoWaits == [id \in {} |-> NewWait]

\* a promise that takes the value of every call of resolve
resolveAgain(wait, value) == [wait EXCEPT !.value = Some(value)]

\* resolve(value): the first call settles the promise, the later ones do
\* nothing
resolve(wait, value) ==
    IF IsDefined(wait.value) THEN wait ELSE [wait EXCEPT !.value = Some(value)]

\* clearTimeout(timeoutId): a timer that has not fired will not fire
clearTimeout(wait) == [wait EXCEPT !.timer = IF @ = "armed" THEN "cleared" ELSE @]

\* the callback of setTimeout, after kill
onTimeout(wait, output, duration) ==
    resolve([wait EXCEPT !.timer = "fired"], TimeoutResult(output, duration))

\* the handler of close
onClose(wait, end, duration) ==
    resolve(clearTimeout(wait),
            CloseResult(end.output, end.errorOutput, end.code, duration))

\* the handler of error
onError(wait, message, duration) ==
    resolve(clearTimeout(wait), ErrorResult(message, duration))

\* how a process that a signal ended closes
SignalledEnd == CHOOSE end \in ProcessEnds : end.code = Undefined

\* onTestStart throws: runTestSuite rejects
StartRejected ==
    /\ phase = "loop"
    /\ completed < Len(suite)
    /\ callbacks.onTestStart = "throws"
    /\ phase' = "rejected"
    /\ notified' = Notify(notified, TestStart(CurrentTest))
    /\ UNCHANGED <<suite, callbacks, elapsed, results, completed, workspaces, cleanups, processes, waits, summary>>
    /\ UNCHANGED <<sandboxVars, evalVars>>

\* onTestStart, then executeTest up to the spawn of the agent process
BeginTest ==
    /\ phase = "loop"
    /\ completed < Len(suite)
    /\ callbacks.onTestStart # "throws"
    /\ phase' = "running"
    /\ elapsed' = 0
    /\ workspaces' = workspaces \cup {workspaceId(CurrentTest)}
    /\ processes' = processes \cup {workspaceId(CurrentTest)}
    /\ waits' = [id \in DOMAIN waits \cup {workspaceId(CurrentTest)} |->
                    IF id = workspaceId(CurrentTest) THEN NewWait ELSE waits[id]]
    /\ notified' = Notify(notified, TestStart(CurrentTest))
    /\ UNCHANGED <<suite, callbacks, results, completed, cleanups, summary>>
    /\ UNCHANGED <<sandboxVars, evalVars>>

\* a finally block that does not call fs.rm
rmSkipped(dirs, id) == dirs

\* the directories fs.rm was called on, after a call on id
rmCalled(dirs, id) == dirs \cup {id}

\* the finally block of executeTest: fs.rm is called on the workspace, which
\* exists or not; it removes the directory, or it rejects and the rejection
\* is logged and dropped
Cleanup(exists, removed) ==
    /\ cleanups' = rmCalled(cleanups, workspaceId(CurrentTest))
    /\ workspaces' = IF removed THEN workspaces \ {workspaceId(CurrentTest)}
                     ELSE IF exists THEN workspaces \cup {workspaceId(CurrentTest)}
                     ELSE workspaces

\* onTestStart, then mkdir or writeFile rejects: the finally block runs,
\* executeTest throws, the runner catches
SetupFails(message) ==
    /\ phase = "loop"
    /\ completed < Len(suite)
    /\ callbacks.onTestStart # "throws"
    /\ EndIteration(Catch(CurrentTest, results, message,
                          Notify(notified, TestStart(CurrentTest))))
    /\ \E removed \in BOOLEAN : Cleanup(message # MKDIR_ERROR, removed)
    /\ UNCHANGED <<suite, callbacks, elapsed, processes, waits, summary>>
    /\ UNCHANGED <<sandboxVars, evalVars>>

Elapse ==
    /\ phase = "running"
    /\ elapsed < TimeoutOf(CurrentTest) + MaxLate * TimeUnit
    /\ elapsed' = elapsed + TimeUnit
    /\ UNCHANGED <<suite, callbacks, phase, results, completed, workspaces, cleanups, processes, waits,
                   notified, summary>>
    /\ UNCHANGED <<sandboxVars, evalVars>>

\* runClaudeCode resolved with executionResult: the rest of executeTest
\* (metrics, scores, result, removal of the workspace) and of the iteration
Resolve(workspaceFiles, executionResult) ==
    /\ EndIteration(Returned(CurrentTest,
                             ExecutedResult(CurrentTest, workspaceFiles, executionResult),
                             notified))
    /\ \E removed \in BOOLEAN : Cleanup(TRUE, removed)
    /\ UNCHANGED <<suite, callbacks, elapsed, summary>>
    /\ UNCHANGED <<sandboxVars, evalVars>>

\* the processes running once process id was sent SIGTERM and the promise
\* resolved: the process has exited by then, or it has not (it has yet to
\* handle the signal, or it handles it and goes on)
Killed(procs, id) == {procs \ {id}, procs}

\* the timer fires before the process closed: kill('SIGTERM') and resolve;
\* a process that exits on the signal emits close
TimeoutFires(output) ==
    /\ phase = "running"
    /\ elapsed >= TimeoutOf(CurrentTest)
    /\ waits[workspaceId(CurrentTest)].timer = "armed"
    /\ processes' \in Killed(processes, workspaceId(CurrentTest))
    /\ waits' = [waits EXCEPT ![workspaceId(CurrentTest)] =
                    LET fired == onTimeout(@, output, elapsed)
                    IN  IF workspaceId(CurrentTest) \in processes' THEN fired
                        ELSE onClose(fired, SignalledEnd, elapsed)]
    /\ Resolve(<<CLAUDE_MD>>, waits'[workspaceId(CurrentTest)].value[1])

\* the process closes before the timer fired
ProcessClose(end) ==
    /\ phase = "running"
    /\ processes' = processes \ {workspaceId(CurrentTest)}
    /\ waits' = [waits EXCEPT ![workspaceId(CurrentTest)] = onClose(@, end, elapsed)]
    /\ Resolve(end.files, waits'[workspaceId(CurrentTest)].value[1])

\* the process cannot be spawned: it emits error, and close after it
ProcessError ==
    /\ phase = "running"
    /\ elapsed = 0
    /\ processes' = processes \ {workspaceId(CurrentTest)}
    /\ waits' = [waits EXCEPT ![workspaceId(CurrentTest)] =
                    onClose(onError(@, SPAWN_ERROR, elapsed), SignalledEnd, elapsed)]
    /\ Resolve(<<CLAUDE_MD>>, waits'[workspaceId(CurrentTest)].value[1])

\* a process that outlived its timer closes: the close handler clears the
\* timer that fired and calls resolve on the promise that is resolved
\* already
LateClose ==
    /\ \E id \in processes :
          /\ ~(phase = "running" /\ id = workspaceId(CurrentTest))
          /\ processes' = processes \ {id}
          /\ waits' = [waits EXCEPT ![id] = onClose(@, SignalledEnd, elapsed)]
    /\ UNCHANGED <<suite, callbacks, phase, elapsed, results, completed, workspaces,
                   cleanups, notified, summary>>
    /\ UNCHANGED <<sandboxVars, evalVars>>

\* the keys of MetricScores
MetricNames ==
    {"correctness", "speed", "tokenEfficiency", "documentation", "codeQuality",
     "security", "instructionAdherence", "consistency", "errorRecovery"}

RECURSIVE Sum(_, _)
\* results.reduce((sum, r) => sum + f(r), 0)
Sum(f(_), rs) == IF rs = <<>> THEN 0 ELSE f(Head(rs)) + Sum(f, Tail(rs))

\* a test that counts as failed when it scored less than 10
BelowFull(r) == r.scores.correctness < 10 * Scale

\* r => r.scores.correctness === 0
ScoredZero(r) == r.scores.correctness = 0

\* TestRunner.calculateSummary; the quotients are kept as fractions num / den
calculateSummary(rs) ==
    LET totalTests == Len(rs)
        failedTests == Len(SelectSeq(rs, ScoredZero))
        passedTests == totalTests - failedTests
        thinking(r) == IF "tokensThinking" \in DOMAIN r /\ IsDefined(r.tokensThinking)
                       THEN r.tokensThinking[1] ELSE 0
        tokens(r) == r.tokensInput + r.tokensOutput + thinking(r)
        time(r) == r.responseTimeMs
    IN  [totalTests |-> totalTests,
         passedTests |-> passedTests,
         failedTests |-> failedTests,
         averageScores |->
            [key \in MetricNames |->
                LET score(r) == r.scores[key]
                IN  IF totalTests > 0
                    THEN [num |-> Sum(score, rs), den |-> totalTests * Scale]
                    ELSE [num |-> 0, den |-> 1]],
         totalTokensUsed |-> Sum(tokens, rs),
         totalTimeMs |-> Sum(time, rs),
         successRate |-> IF totalTests > 0
                         THEN [num |-> passedTests, den |-> totalTests]
                         ELSE [num |-> 0, den |-> 1]]

\* the loop is over: runTestSuite returns
FinishSuite ==
    /\ phase = "loop"
    /\ completed = Len(suite)
    /\ phase' = "returned"
    /\ summary' = Some(calculateSummary(results))
    /\ UNCHANGED <<suite, callbacks, elapsed, results, completed, workspaces, cleanups,
                   processes, waits, notified>>
    /\ UNCHANGED <<sandboxVars, evalVars>>

-----------------------------------------------------------------------------
(* The API client: one VirtualFileSystem per ClaudeClient, made in the      *)
(* constructor.  executeWithClaudeFile runs one test against it in a loop   *)
(* of agent turns; the API-based TestRunner runs a suite on one client and  *)
(* calls client.reset() before each test.                                   *)

MaxTurns == 2       \* API calls explored in one executeWithClaudeFile call

MaxRequests == 2    \* tool requests explored in one response of the agent

\* new TestRunner(config) with a config that sets no timeout
apiConfig == [timeout |-> Undefined]

\* the timeout option runSingleTest passes: test.timeout || this.config.timeout
TimeoutOption(t) ==
    IF IsDefined(t.timeout) /\ t.timeout[1] # 0 THEN t.timeout ELSE apiConfig.timeout

FILE_WRITE == <<"f", "i", "l", "e", "_", "w", "r", "i", "t", "e">>

FILE_READ == <<"f", "i", "l", "e", "_", "r", "e", "a", "d">>

BASH_EXECUTE == <<"b", "a", "s", "h", "_", "e", "x", "e", "c", "u", "t", "e">>

FILE_EDIT == <<"f", "i", "l", "e", "_", "e", "d", "i", "t">>

LIST_DIRECTORY == <<"l", "i", "s", "t", "_", "d", "i", "r", "e", "c", "t", "o", "r", "y">>

\* the names of the tools the client offers to the agent
ToolNames == {FILE_WRITE, FILE_READ, FILE_EDIT, BASH_EXECUTE, LIST_DIRECTORY}

FILE_NOT_FOUND == <<"F", "i", "l", "e", " ", "n", "o", "t", " ", "f", "o", "u", "n", "d">>

UNKNOWN_TOOL == <<"U", "n", "k", "n", "o", "w", "n", " ", "t", "o", "o", "l", ":", " ">>

\* how the message of the TypeError begins that normalizePath throws for a
\* path that is undefined
PATH_TYPE_ERROR == <<"C", "a", "n", "n", "o", "t", " ", "r", "e", "a", "d", " ", "p", "r", "o", "p", "e", "r", "t", "i", "e", "s", " ", "o", "f", " ", "u", "n", "d", "e", "f", "i", "n", "e", "d">>

\* a tool_use block of a response
ToolUse(id, name, input) == [id |-> id, name |-> name, input |-> input]

\* the ToolCall executeToolCall returns; error is set by its catch block only
ExecutedCall(toolName, parameters, res, error) ==
    [toolName |-> toolName, parameters |-> parameters, result |-> res, error |-> error]

\* a Message of the transcript with its token counts
ApiMessage(role, content, toolCalls, tokens) ==
    [role |-> role, content |-> content, toolCalls |-> toolCalls, tokens |-> tokens]

\* input[key], undefined when the input has no such field
Field(input, key) ==
    LET hits == SelectSeq(input, LAMBDA f : f[1] = key)
    IN  IF hits = <<>> THEN Undefined ELSE Some(hits[1][2])

\* what the agent can ask for: a write, a read (of a file that is there or
\* not), a read without a path, a tool the client does not have
ToolRequests ==
    { [name |-> FILE_WRITE, input |-> WRITE_A.parameters],
      [name |-> FILE_READ, input |-> READ_A.parameters],
      [name |-> FILE_READ, input |-> <<>>],
      [name |-> <<"w", "e", "b", "_", "s", "e", "a", "r", "c", "h">>, input |-> <<>>] }

Usage(input_tokens, output_tokens) ==
    [input_tokens |-> input_tokens, output_tokens |-> output_tokens]

\* the responses of the API with at most n tool_use blocks
AgentResponses(n) ==
    { [text |-> <<"d", "o", "n", "e">>, requests |-> <<>>, usage |-> Some(Usage(10, 20))],
      [text |-> EMPTY, requests |-> <<>>, usage |-> Undefined] }
    \cup { [text |-> <<"o", "k">>, requests |-> rs, usage |-> Some(Usage(30, 40))] :
             rs \in SeqsUpTo(ToolRequests, n) \ {<<>>} }

\* the locals of executeWithClaudeFile when no call is in progress
LoopIdle ==
    [pc |-> "idle", timeout |-> Undefined, elapsed |-> 0, turns |-> 0,
     response |-> Undefined, toolUses |-> <<>>, assistantMessage |-> Undefined,
     toolResults |-> <<>>, currentMessages |-> <<>>, conversationMessages |-> <<>>,
     finalResponse |-> EMPTY, totalInputTokens |-> 0, totalOutputTokens |-> 0,
     totalThinkingTokens |-> 0]

\* executeWithClaudeFile up to the first API call
EnterLoop(prompt, options) ==
    [LoopIdle EXCEPT
        !.pc = "awaiting",
        !.timeout = options.timeout,
        !.currentMessages = << [role |-> "user", type |-> "text", content |-> prompt] >>]

RECURSIVE AllToolCalls(_)
\* messages.flatMap(m => m.toolCalls || [])
AllToolCalls(messages) ==
    IF messages = <<>> THEN <<>>
    ELSE (IF IsDefined(Head(messages).toolCalls) THEN Head(messages).toolCalls[1] ELSE <<>>)
         \o AllToolCalls(Tail(messages))

\* the tool requests dispatched so far in the call
CallsMade(lp) ==
    Len(AllToolCalls(lp.conversationMessages))
    + (IF IsDefined(lp.assistantMessage) THEN Len(lp.assistantMessage[1].toolCalls[1]) ELSE 0)

\* a loop that takes the requests of a turn from the end
LastToolUse(toolUses) == Last(toolUses)

\* for (const toolUse of toolUses): the request the loop takes next
NextToolUse(toolUses) == Head(toolUses)

\* the result executeToolCall returned tells of a failure
Failed(toolCall) == "error" \in DOMAIN toolCall.result

\* JSON.stringify(toolCall.result): the text, kept as the result it is the
\* JSON text of
ResultText(res) == [json |-> res]

\* a loop that sends the last turn and its results without what came before
SendTurnOnly(messages, response, toolResults) ==
    << [role |-> "assistant", type |-> "response", content |-> response] >> \o toolResults

\* currentMessages.push({role: 'assistant', content: response.content},
\*                      ...toolResults)
PushTurn(messages, response, toolResults) ==
    messages \o << [role |-> "assistant", type |-> "response", content |-> response] >>
             \o toolResults

\* the loop from the point where executeToolCall returned toolCall for the
\* first pending request, with the requests in rest still to dispatch: the
\* call and its tool_result are recorded; after the last request of the turn
\* the messages are pushed and the next API call is made
RecordToolCall(toolCall, rest) ==
    LET toolUse == NextToolUse(loop.toolUses)
        assistantMessage ==
            [loop.assistantMessage[1] EXCEPT !.toolCalls = Some(Append(@[1], toolCall))]
        toolResults ==
            Append(loop.toolResults,
                   [role |-> "user", type |-> "tool_result",
                    tool_use_id |-> toolUse.id, content |-> ResultText(toolCall.result)])
    IN  IF rest # <<>>
        THEN [loop EXCEPT !.toolUses = rest,
                          !.assistantMessage = Some(assistantMessage),
                          !.toolResults = toolResults]
        ELSE [loop EXCEPT !.pc = "awaiting",
                          !.toolUses = <<>>,
                          !.assistantMessage = Undefined,
                          !.toolResults = <<>>,
                          !.response = Undefined,
                          !.conversationMessages = Append(@, assistantMessage),
                          !.currentMessages = PushTurn(@, loop.response[1], toolResults)]

\* a loop that gives up the rest of a turn when a tool call failed
AfterFailedCallEndsTurn(toolCall) ==
    RecordToolCall(toolCall, IF Failed(toolCall) THEN <<>> ELSE Tail(loop.toolUses))

\* the for loop over toolUses goes on with the requests after the first
AfterToolCall(toolCall) == RecordToolCall(toolCall, Tail(loop.toolUses))

\* the keys of the files Map in the order a for-of loop visits them: the
\* order in which they were first set and not deleted since, read off the
\* operation log, which is cleared together with the Map
RECURSIVE InsertionOrder(_)
InsertionOrder(ops) ==
    IF ops = <<>> THEN <<>>
    ELSE LET before == InsertionOrder(Front(ops))
             op == Last(ops)
         IN  IF op.type = "write" /\ \A i \in DOMAIN before : before[i] # op.path
             THEN Append(before, op.path)
             ELSE IF op.type = "delete" /\ op.success
             THEN SelectSeq(before, LAMBDA k : k # op.path)
             ELSE before

\* Array.from(entries) of listDirectory(dirPath): the entries in the order
\* they were added to the Set
ListedInOrder(ops, dirPath) ==
    LET normalizedDir == NP[dirPath]
        part0(filePath) == Split(Slice(filePath, Len(normalizedDir) + 1), SLASH)[1]
        hits == SelectSeq(InsertionOrder(ops),
                          LAMBDA k : StartsWith(k, normalizedDir) /\ part0(k) # <<>>)
        names == [i \in DOMAIN hits |-> part0(hits[i])]
        first == {i \in DOMAIN names : \A j \in 1..(i - 1) : names[j] # names[i]}
        RECURSIVE Pick(_)
        Pick(i) == IF i > Len(names) THEN <<>>
                   ELSE (IF i \in first THEN <<names[i]>> ELSE <<>>) \o Pick(i + 1)
    IN  Pick(1)

NEWLINE == "\n"

SPACE == " "

NO_SUCH_FILE == <<":", " ", "N", "o", " ", "s", "u", "c", "h", " ", "f", "i", "l", "e", " ", "o", "r", " ", "d", "i", "r", "e", "c", "t", "o", "r", "y">>

COMMAND_SIMULATED == <<"C", "o", "m", "m", "a", "n", "d", " ", "s", "i", "m", "u", "l", "a", "t", "e", "d", ":", " ">>

\* the values Math.random() * 100 takes, rounded
RandomDurations == {0, 99}

\* a CommandExecution
Execution(command, output, exitCode, durationMs, timestamp) ==
    [command |-> command, output |-> output, exitCode |-> exitCode,
     timestamp |-> timestamp, durationMs |-> durationMs]

\* the commands the agent runs: the four the client interprets, and three
\* it does not know, two of which begin like ls and cat
Commands ==
    { <<"l", "s">>, <<"c", "a", "t", " ", "a">>, <<"e", "c", "h", "o", " ", "h", "i">>, <<"p", "w", "d">>,
      <<"m", "a", "k", "e">>, <<"l", "s", "o", "f">>, <<"c", "a", "t", "a", "l", "o", "g", " ", "a">> }

\* executeVirtualCommand(command): the command is interpreted on the
\* sandbox and pushed, with its output, on the commandHistory
executeVirtualCommand(command) ==
    LET arg == IF Len(Split(command, SPACE)) >= 2 THEN Split(command, SPACE)[2] ELSE <<>>
        Push(output, exitCode) ==
            \E durationMs \in RandomDurations :
                commandHistory' = Append(commandHistory,
                    Execution(command, output, exitCode, durationMs, now))
        sandboxUntouched ==
            /\ UNCHANGED <<files, operations, now, ret, running, testsStarted>>
            /\ UNCHANGED <<evalVars, runVars>>
    IN  IF StartsWith(command, <<"l", "s">>)
        THEN LET path == IF arg # <<>> THEN arg ELSE rootPath
             IN  /\ List(path)
                 /\ Push(Join(ListedInOrder(operations, path), NEWLINE), 0)
        ELSE IF StartsWith(command, <<"c", "a", "t">>)
        THEN IF arg # <<>>
             THEN /\ Read(arg)
                  /\ IF ret'.result.value # Null /\ ret'.result.value # <<>>
                     THEN Push(ret'.result.value, 0)
                     ELSE Push(<<"c", "a", "t", ":", " ">> \o arg \o NO_SUCH_FILE, 1)
             ELSE /\ sandboxUntouched
                  /\ Push(<<>>, 0)
        ELSE IF StartsWith(command, <<"e", "c", "h", "o">>)
        THEN /\ sandboxUntouched
             /\ Push(Slice(command, 5), 0)
        ELSE IF command = <<"p", "w", "d">>
        THEN /\ sandboxUntouched
             /\ Push(rootPath, 0)
        ELSE /\ sandboxUntouched
             /\ Push(COMMAND_SIMULATED \o command, 0)

\* executeToolCall on the first pending request, and the loop after it
Dispatch ==
    /\ loop.pc = "dispatching"
    /\ LET toolUse == NextToolUse(loop.toolUses)
           path == Field(toolUse.input, <<"p", "a", "t", "h">>)
           content == Field(toolUse.input, <<"c", "o", "n", "t", "e", "n", "t">>)
           old_content == Field(toolUse.input, <<"o", "l", "d", "_", "c", "o", "n", "t", "e", "n", "t">>)
           new_content == Field(toolUse.input, <<"n", "e", "w", "_", "c", "o", "n", "t", "e", "n", "t">>)
           command == Field(toolUse.input, <<"c", "o", "m", "m", "a", "n", "d">>)
       IN  CASE toolUse.name = FILE_WRITE /\ IsDefined(path) /\ IsDefined(content) ->
                  /\ Write(path[1], content[1])
                  /\ UNCHANGED commandHistory
                  /\ loop' = AfterToolCall(
                        ExecutedCall(toolUse.name, toolUse.input, ret'.result, Undefined))
             [] toolUse.name = FILE_READ /\ IsDefined(path) ->
                  /\ Read(path[1])
                  /\ UNCHANGED commandHistory
                  /\ loop' = AfterToolCall(
                        ExecutedCall(toolUse.name, toolUse.input,
                                     IF ret'.result.value # Null
                                     THEN [content |-> ret'.result.value]
                                     ELSE [error |-> FILE_NOT_FOUND],
                                     Undefined))
             [] toolUse.name = FILE_EDIT /\ IsDefined(path)
                    /\ IsDefined(old_content) /\ IsDefined(new_content) ->
                  /\ Edit(path[1], old_content[1], new_content[1])
                  /\ UNCHANGED commandHistory
                  /\ loop' = AfterToolCall(
                        ExecutedCall(toolUse.name, toolUse.input, ret'.result, Undefined))
             [] toolUse.name = BASH_EXECUTE /\ IsDefined(command) ->
                  /\ executeVirtualCommand(command[1])
                  /\ loop' = AfterToolCall(
                        ExecutedCall(toolUse.name, toolUse.input,
                                     [output |-> Last(commandHistory').output,
                                      exitCode |-> Last(commandHistory').exitCode],
                                     Undefined))
             [] toolUse.name = LIST_DIRECTORY /\ IsDefined(path) ->
                  /\ List(path[1])
                  /\ UNCHANGED commandHistory
                  /\ loop' = AfterToolCall(
                        ExecutedCall(toolUse.name, toolUse.input,
                                     [files |-> ListedInOrder(operations, path[1])],
                                     Undefined))
             [] \/ toolUse.name \in {FILE_WRITE, FILE_READ, FILE_EDIT, LIST_DIRECTORY}
                       /\ ~IsDefined(path)
                \/ toolUse.name = BASH_EXECUTE /\ ~IsDefined(command) ->
                  /\ loop' = AfterToolCall(
                        ExecutedCall(toolUse.name, toolUse.input,
                                     [error |-> PATH_TYPE_ERROR], Some(PATH_TYPE_ERROR)))
                  /\ UNCHANGED <<files, operations, now, ret, running, testsStarted, commandHistory>>
                  /\ UNCHANGED <<evalVars, runVars>>
             [] toolUse.name \notin ToolNames ->
                  /\ loop' = AfterToolCall(
                        ExecutedCall(toolUse.name, toolUse.input,
                                     [error |-> UNKNOWN_TOOL \o toolUse.name], Undefined))
                  /\ UNCHANGED <<files, operations, now, ret, running, testsStarted, commandHistory>>
                  /\ UNCHANGED <<evalVars, runVars>>

\* a call that returns the text of the first turn as its response
ExecutionResultOfFirstTurn(lp) ==
    [response |-> lp.conversationMessages[1].content,
     conversation |-> [messages |-> lp.conversationMessages,
                       totalDurationMs |-> lp.elapsed],
     tokensUsed |-> [input |-> lp.totalInputTokens, output |-> lp.totalOutputTokens,
                     thinking |-> Some(lp.totalThinkingTokens)],
     duration |-> lp.elapsed]

\* what executeWithClaudeFile returns from the locals lp of its loop
ExecutionResult(lp) ==
    [response |-> lp.finalResponse,
     conversation |-> [messages |-> lp.conversationMessages,
                       totalDurationMs |-> lp.elapsed],
     tokensUsed |-> [input |-> lp.totalInputTokens, output |-> lp.totalOutputTokens,
                     thinking |-> Some(lp.totalThinkingTokens)],
     duration |-> lp.elapsed]

\* TestRunner.extractErrors: one event per tool call whose error field is set
extractErrors(conv) ==
    LET failed == SelectSeq(AllToolCalls(conv.messages),
                            LAMBDA call : IsDefined(call.error) /\ call.error[1] # EMPTY)
    IN  [i \in DOMAIN failed |-> ErrorEvent("tool_error", failed[i].error[1])]

\* runSingleTest after executeWithClaudeFile returned: the raw metrics, the
\* scores of the evaluators and the TestResult
runSingleTest(t, executionResult, fileOperations, commandsExecuted) ==
    LET rawMetrics ==
            [allToolCalls |-> AllToolCalls(executionResult.conversation.messages),
             fileOperations |-> fileOperations,
             commandsExecuted |-> commandsExecuted,
             errorsEncountered |-> extractErrors(executionResult.conversation),
             retryAttempts |-> countRetries(executionResult.conversation)]
        Result(sc) ==
            [testRunId |-> testRunId,
             testId |-> t.id,
             prompt |-> t.prompt,
             response |-> executionResult.response,
             tokensInput |-> executionResult.tokensUsed.input,
             tokensOutput |-> executionResult.tokensUsed.output,
             tokensThinking |-> executionResult.tokensUsed.thinking,
             responseTimeMs |-> executionResult.duration,
             scores |-> sc,
             conversation |-> executionResult.conversation,
             metricsRaw |-> rawMetrics]
    IN  Result(evaluateAll(evaluators, NoScores, t, Result(NoScores),
                           executionResult.conversation, rawMetrics))

\* a client whose reset does nothing
ClientResetSkipped(fs, ops, history) ==
    [files |-> fs, operations |-> ops, commandHistory |-> history]

\* client.reset(): virtualFS.reset() and an empty commandHistory
ClientReset(fs, ops, history) ==
    [files |-> NoFiles, operations |-> ResetOperations(ops), commandHistory |-> <<>>]

\* an iteration of runTestSuite up to the first API call: onTestStart,
\* client.reset(), runSingleTest, executeWithClaudeFile
ApiBeginTest ==
    /\ phase = "loop"
    /\ completed < Len(suite)
    /\ callbacks.onTestStart # "throws"
    /\ files' = ClientReset(files, operations, commandHistory).files
    /\ operations' = ClientReset(files, operations, commandHistory).operations
    /\ commandHistory' = ClientReset(files, operations, commandHistory).commandHistory
    /\ ret' = Ret("reset", Null, [value |-> Null])
    /\ loop' = EnterLoop(CurrentTest.prompt, [timeout |-> TimeoutOption(CurrentTest)])
    /\ running' = TRUE
    /\ testsStarted' = testsStarted + 1
    /\ phase' = "running"
    /\ notified' = Notify(notified, TestStart(CurrentTest))
    /\ UNCHANGED <<now, suite, callbacks, elapsed, results, completed, workspaces, cleanups, processes, waits, summary>>
    /\ UNCHANGED evalVars

\* a total that holds the tokens of the last turn only
LastTokens(total, tokens) == tokens

\* total += tokens
AddTokens(total, tokens) == total + tokens

\* the API call returns response: the tokens are added; without tool_use
\* blocks the loop ends, executeWithClaudeFile returns, and runSingleTest and
\* the iteration of runTestSuite go on to their end; with tool_use blocks
\* the requests are dispatched next
AgentResponds(response) ==
    /\ loop.pc = "awaiting"
    /\ loop.turns < MaxTurns
    /\ LET inputTokens ==
               IF IsDefined(response.usage) THEN response.usage[1].input_tokens ELSE 0
           outputTokens ==
               IF IsDefined(response.usage) THEN response.usage[1].output_tokens ELSE 0
           assistantMessage ==
               ApiMessage("assistant", response.text, Some(<<>>),
                          [input |-> inputTokens, output |-> outputTokens])
           toolUses ==
               [i \in DOMAIN response.requests |->
                   ToolUse(<<loop.turns + 1, i>>, response.requests[i].name,
                           response.requests[i].input)]
           counted ==
               [loop EXCEPT !.turns = @ + 1,
                            !.totalInputTokens = AddTokens(@, inputTokens),
                            !.totalOutputTokens = AddTokens(@, outputTokens)]
           done ==
               [counted EXCEPT !.pc = "returned",
                               !.finalResponse = assistantMessage.content,
                               !.conversationMessages = Append(@, assistantMessage)]
       IN  IF toolUses = <<>>
           THEN /\ loop' = done
                /\ running' = FALSE
                /\ EndIteration(Returned(CurrentTest,
                       runSingleTest(CurrentTest, ExecutionResult(done), operations,
                                     commandHistory),
                       notified))
                /\ UNCHANGED <<suite, callbacks, elapsed, workspaces, cleanups, processes, waits, summary>>
           ELSE /\ loop' = [counted EXCEPT !.pc = "dispatching",
                                           !.response = Some([text |-> response.text,
                                                              toolUses |-> toolUses]),
                                           !.toolUses = toolUses,
                                           !.assistantMessage = Some(assistantMessage),
                                           !.toolResults = <<>>]
                /\ UNCHANGED <<running, runVars>>
    /\ UNCHANGED <<files, operations, now, ret, testsStarted, commandHistory>>
    /\ UNCHANGED evalVars

API_ERROR == <<"5", "2", "9", " ", "o", "v", "e", "r", "l", "o", "a", "d", "e", "d">>

\* the API call throws: executeWithClaudeFile and runSingleTest reject, and
\* the catch block of runTestSuite takes over
ApiThrows(message) ==
    /\ loop.pc = "awaiting"
    /\ loop' = [loop EXCEPT !.pc = "rejected"]
    /\ running' = FALSE
    /\ EndIteration(Catch(CurrentTest, results, message, notified))
    /\ UNCHANGED <<files, operations, now, ret, testsStarted, commandHistory>>
    /\ UNCHANGED <<suite, callbacks, elapsed, workspaces, cleanups, processes, waits, summary>>
    /\ UNCHANGED evalVars

\* time passes during the call, up to MaxLate steps past its timeout
LoopElapse ==
    /\ loop.pc \in {"awaiting", "dispatching"}
    /\ loop.elapsed < (IF IsDefined(loop.timeout) THEN loop.timeout[1] ELSE 0)
                      + MaxLate * TimeUnit
    /\ loop' = [loop EXCEPT !.elapsed = @ + TimeUnit]
    /\ UNCHANGED <<files, operations, now, ret, running, testsStarted, commandHistory>>
    /\ UNCHANGED <<evalVars, runVars>>

-----------------------------------------------------------------------------
(* Initial states and specifications *)

SandboxInit ==
    /\ files = NoFiles
    /\ operations = <<>>
    /\ now = 1
    /\ ret = Ret("none", Null, [value |-> Null])
    /\ running = FALSE
    /\ testsStarted = 0
    /\ loop = LoopIdle
    /\ commandHistory = <<>>

\* a new EvaluatorManager, and nothing evaluated or counted yet
EvalIdle ==
    /\ evaluators = registerDefaultEvaluators
    /\ scores = NoScores
    /\ counts = NoCounts

\* the result of a test that failed before it ran, as createFailedResult makes it
EvalInputIdle ==
    /\ test = [expectedBehavior |-> Null]
    /\ result = [response |-> TESTFAILED, responseTimeMs |-> 0, tokensInput |-> 0,
                 tokensOutput |-> 0, tokensThinking |-> Undefined]
    /\ conversation = [messages |-> <<>>]
    /\ metricsRaw = [fileOperations |-> <<>>,
                     errorsEncountered |-> <<[recovered |-> FALSE]>>,
                     retryAttempts |-> 0]

RunIdle ==
    /\ suite = <<>>
    /\ callbacks = NoCallbacks
    /\ phase = "loop"
    /\ elapsed = 0
    /\ results = <<>>
    /\ completed = 0
    /\ workspaces = {}
    /\ cleanups = {}
    /\ processes = {}
    /\ waits = NoWaits
    /\ notified = <<>>
    /\ summary = Undefined

Init == SandboxInit /\ EvalIdle /\ EvalInputIdle /\ RunIdle

\* every input of the evaluators
InitEval ==
    /\ SandboxInit
    /\ EvalIdle
    /\ RunIdle
    /\ \E b \in ExpectedBehaviors, resp \in Responses, errors \in ErrorLists,
          retryAttempts \in 0..MaxRetries, sc \in Scenarios :
            /\ test = [expectedBehavior |-> b]
            /\ result = ResultOf(resp, sc)
            /\ conversation = [messages |-> sc.messages]
            /\ metricsRaw = MetricsOf(errors, retryAttempts, sc)

NextEval == EvaluateAll

SpecEval == InitEval /\ [][NextEval]_vars

\* the durations given to the speed evaluator: every full second up to
\* MaxSeconds, and one millisecond after it
MaxSeconds == 60

Durations == { sec * 1000 + ms : sec \in 0..MaxSeconds, ms \in {0, 1} }

\* a result with each of the durations, for the evaluators
InitSpeed ==
    /\ SandboxInit
    /\ EvalIdle
    /\ RunIdle
    /\ \E d \in Durations :
          /\ test = [expectedBehavior |-> Null]
          /\ result = [response |-> <<"d", "o", "n", "e">>, responseTimeMs |-> d,
                       tokensInput |-> 100, tokensOutput |-> 200,
                       tokensThinking |-> Undefined]
          /\ conversation = [messages |-> <<>>]
          /\ metricsRaw = [fileOperations |-> <<>>, errorsEncountered |-> <<>>,
                           retryAttempts |-> 0]

SpecSpeed == InitSpeed /\ [][NextEval]_vars

\* the most duplicate tool calls in a transcript given to the evaluators
MaxDuplicates == 9

InputTokenCounts == {0, 100, 4000}

\* with 100 input tokens: the ratios around 0.5, 3 and 5, and beyond
OutputTokenCounts ==
    {0, 49, 50, 300, 301, 500, 501, 699, 700, 1100, 1300, 2901, 4901, 8000, 9901}

\* results over the token counts, with transcripts of 0 to MaxDuplicates
\* duplicate tool calls
InitTokens ==
    /\ SandboxInit
    /\ EvalIdle
    /\ RunIdle
    /\ \E tokensInput \in InputTokenCounts, tokensOutput \in OutputTokenCounts,
          tokensThinking \in {Undefined, Some(100)}, n \in 0..(MaxDuplicates + 1) :
          /\ test = [expectedBehavior |-> Null]
          /\ result = [response |-> <<"d", "o", "n", "e">>, responseTimeMs |-> 1500,
                       tokensInput |-> tokensInput, tokensOutput |-> tokensOutput,
                       tokensThinking |-> tokensThinking]
          /\ conversation =
                [messages |-> << Message("assistant", <<"d", "o", "n", "e">>,
                                         Some([i \in 1..n |->
                                                  IF n % 2 = 1 /\ i = 2 THEN WRITE_A
                                                  ELSE READ_A])) >>]
          /\ metricsRaw = [fileOperations |-> <<>>, errorsEncountered |-> <<>>,
                           retryAttempts |-> 0]

SpecTokens == InitTokens /\ [][NextEval]_vars

\* a registry that callers change, over a few inputs
InitRegistry ==
    /\ SandboxInit
    /\ EvalIdle
    /\ RunIdle
    /\ \E b \in {Null, <<"w", "r", "i", "t", "e", "s", " ", "t", "h", "e", " ", "f", "i", "l", "e">>},
          resp \in {EMPTY, <<"w", "r", "o", "t", "e", " ", "t", "h", "e", " ", "f", "i", "l", "e", " ", "a", "n", "d", " ", "h", "a", "n", "d", "l", "e", "d", " ", "e", "r", "r", "o", "r">>},
          sc \in Scenarios :
            /\ test = [expectedBehavior |-> b]
            /\ result = ResultOf(resp, sc)
            /\ conversation = [messages |-> sc.messages]
            /\ metricsRaw = MetricsOf(<<[recovered |-> TRUE]>>, 1, sc)

NextRegistry ==
    \/ \E u \in CustomUnits : RegisterEvaluator(u)
    \/ EvaluateAll

SpecRegistry == InitRegistry /\ [][NextRegistry]_vars

NextMetrics ==
    \/ \E message \in NewMessages(MaxCalls - CallCount(conversation.messages)) :
          AddMessage(message)
    \/ CountRetries
    \/ CountDuplicateToolCalls

SpecMetrics == Init /\ [][NextMetrics]_vars

\* a run of a suite by the TestRunner
InitRun ==
    /\ SandboxInit
    /\ EvalIdle
    /\ EvalInputIdle
    /\ \E n \in 0..MaxSuite : suite = [i \in 1..n |-> TestAt(i)]
    /\ callbacks \in CallbackConfigs
    /\ phase = "loop"
    /\ elapsed = 0
    /\ results = <<>>
    /\ completed = 0
    /\ workspaces = {}
    /\ cleanups = {}
    /\ processes = {}
    /\ waits = NoWaits
    /\ notified = <<>>
    /\ summary = Undefined

NextRun ==
    \/ StartRejected
    \/ BeginTest
    \/ \E message \in SetupErrors : SetupFails(message)
    \/ Elapse
    \/ \E output \in PartialOutputs : TimeoutFires(output)
    \/ \E end \in ProcessEnds : ProcessClose(end)
    \/ ProcessError
    \/ LateClose
    \/ FinishSuite

SpecRun == InitRun /\ [][NextRun]_vars

\* the operations of the sandbox, called by any caller in any order
Next ==
    \/ (\E p \in Spellings, c \in Contents : Write(p, c)) /\ UNCHANGED <<loop, commandHistory>>
    \/ (\E p \in Spellings : Read(p)) /\ UNCHANGED <<loop, commandHistory>>
    \/ (\E p \in Spellings, e \in Edits : Edit(p, e[1], e[2])) /\ UNCHANGED <<loop, commandHistory>>
    \/ (\E p \in Spellings : Delete(p)) /\ UNCHANGED <<loop, commandHistory>>
    \/ (\E d \in Dirs : List(d)) /\ UNCHANGED <<loop, commandHistory>>
    \/ Reset /\ UNCHANGED <<loop, commandHistory>>
    \/ Tick /\ UNCHANGED <<loop, commandHistory>>

Spec == Init /\ [][Next]_vars

\* one executeWithClaudeFile call, for every behaviour of the agent: a suite
\* of one test run by the API-based TestRunner without callbacks
InitLoop ==
    /\ SandboxInit
    /\ EvalIdle
    /\ EvalInputIdle
    /\ \E i \in 1..2 : suite = <<TestAt(i)>>
    /\ callbacks = NoCallbacks
    /\ phase = "loop"
    /\ elapsed = 0
    /\ results = <<>>
    /\ completed = 0
    /\ workspaces = {}
    /\ cleanups = {}
    /\ processes = {}
    /\ waits = NoWaits
    /\ notified = <<>>
    /\ summary = Undefined

NextLoop ==
    \/ ApiBeginTest
    \/ \E response \in AgentResponses(Min(MaxRequests, MaxCalls - CallsMade(loop))) :
          AgentResponds(response)
    \/ Dispatch
    \/ ApiThrows(API_ERROR)
    \/ LoopElapse
    \/ FinishSuite

SpecLoop == InitLoop /\ [][NextLoop]_vars

\* an agent that uses every tool of the client, one request a turn: the
\* requests of ToolRequests, a write of an empty file, edits (of a fragment
\* that is in the content written or not), a listing, and the commands
ToolboxRequests ==
    ToolRequests
    \cup { [name |-> FILE_WRITE,
            input |-> << <<<<"p", "a", "t", "h">>, A>>, <<<<"c", "o", "n", "t", "e", "n", "t">>, EMPTY>> >>],
           [name |-> LIST_DIRECTORY, input |-> << <<<<"p", "a", "t", "h">>, <<SLASH>>>> >>] }
    \cup { [name |-> FILE_EDIT,
            input |-> << <<<<"p", "a", "t", "h">>, A>>, <<<<"o", "l", "d", "_", "c", "o", "n", "t", "e", "n", "t">>, ed[1]>>,
                         <<<<"n", "e", "w", "_", "c", "o", "n", "t", "e", "n", "t">>, ed[2]>> >>] :
             ed \in {<<<<"x">>, <<"y">>>>, <<<<"z">>, <<"y">>>>} }
    \cup { [name |-> BASH_EXECUTE, input |-> << <<<<"c", "o", "m", "m", "a", "n", "d">>, cmd>> >>] :
             cmd \in Commands }

ToolboxResponses ==
    { r \in AgentResponses(0) : IsDefined(r.usage) }
    \cup { [text |-> <<"o", "k">>, requests |-> <<request>>, usage |-> Some(Usage(30, 40))] :
             request \in ToolboxRequests }

NextTools ==
    \/ ApiBeginTest
    \/ \E response \in ToolboxResponses : AgentResponds(response)
    \/ Dispatch
    \/ FinishSuite

SpecTools == InitLoop /\ [][NextTools]_vars

\* runSingleTest's extraction of the errors and the retries of a transcript
ExtractMetrics ==
    /\ ~counts.retries.done
    /\ metricsRaw' = [metricsRaw EXCEPT !.errorsEncountered = extractErrors(conversation),
                                        !.retryAttempts = countRetries(conversation)]
    /\ counts' = [counts EXCEPT !.retries = [done |-> TRUE,
                                             value |-> countRetries(conversation)]]
    /\ UNCHANGED <<evaluators, test, result, conversation, scores>>
    /\ UNCHANGED <<sandboxVars, runVars>>

INCLUDES_TYPE_ERROR == PATH_TYPE_ERROR \o <<" ", "(", "r", "e", "a", "d", "i", "n", "g", " ", "i", "n", "c", "l", "u", "d", "e", "s", ")">>

EDIT_A == [name |-> FILE_EDIT,
           input |-> << <<<<"p", "a", "t", "h">>, A>>, <<<<"o", "l", "d", "_", "c", "o", "n", "t", "e", "n", "t">>, <<"x">>>>,
                        <<<<"n", "e", "w", "_", "c", "o", "n", "t", "e", "n", "t">>, <<"y">>>> >>]

\* the tool calls of the transcripts of a client: a read without a path,
\* which throws; an edit of a file that a write without content left with
\* undefined content, which throws, and the same edit once the file has a
\* content; a read that finds no file; a write
ExecutedCalls ==
    { ExecutedCall(FILE_READ, <<>>, [error |-> PATH_TYPE_ERROR], Some(PATH_TYPE_ERROR)),
      ExecutedCall(EDIT_A.name, EDIT_A.input, [error |-> INCLUDES_TYPE_ERROR],
                   Some(INCLUDES_TYPE_ERROR)),
      ExecutedCall(EDIT_A.name, EDIT_A.input,
                   [success |-> TRUE, message |-> "File edited successfully"], Undefined),
      ExecutedCall(FILE_READ, READ_A.parameters, [error |-> FILE_NOT_FOUND], Undefined),
      ExecutedCall(FILE_WRITE, WRITE_A.parameters,
                   [success |-> TRUE, bytesWritten |-> 1], Undefined) }

\* the transcripts of up to MaxCalls tool calls, made in one turn or in two,
\* and the turn without calls that ends the loop
InitErrors ==
    /\ SandboxInit
    /\ EvalIdle
    /\ RunIdle
    /\ test = [expectedBehavior |-> Null]
    /\ result = [response |-> TESTFAILED, responseTimeMs |-> 0, tokensInput |-> 0,
                 tokensOutput |-> 0, tokensThinking |-> Undefined]
    /\ metricsRaw = [fileOperations |-> <<>>, errorsEncountered |-> <<>>,
                     retryAttempts |-> 0]
    /\ \E calls \in SeqsUpTo(ExecutedCalls, MaxCalls) :
          \E k \in 0..Len(calls) :
              LET turns == SelectSeq(<<SubSeq(calls, 1, k), SubSeq(calls, k + 1, Len(calls))>>,
                                    LAMBDA turn : turn # <<>>)
              IN  conversation =
                      [messages |->
                          [i \in DOMAIN turns |->
                              ApiMessage("assistant", <<"o", "k">>, Some(turns[i]),
                                         [input |-> 30, output |-> 40])]
                          \o << ApiMessage("assistant", <<"d", "o", "n", "e">>, Some(<<>>),
                                           [input |-> 10, output |-> 20]) >>]

SpecErrors == InitErrors /\ [][ExtractMetrics]_vars

\* a suite run by the API-based TestRunner on its one client, with an agent
\* that writes a file or answers
InitClient ==
    /\ SandboxInit
    /\ EvalIdle
    /\ EvalInputIdle
    /\ \E n \in 0..MaxTests : suite = [i \in 1..n |-> TestAt(i)]
    /\ callbacks \in CallbackConfigs
    /\ phase = "loop"
    /\ elapsed = 0
    /\ results = <<>>
    /\ completed = 0
    /\ workspaces = {}
    /\ cleanups = {}
    /\ processes = {}
    /\ waits = NoWaits
    /\ notified = <<>>
    /\ summary = Undefined

NextClient ==
    \/ StartRejected
    \/ ApiBeginTest
    \/ \E response \in { r \in AgentResponses(1) :
                            \A i \in DOMAIN r.requests : r.requests[i].name = FILE_WRITE } :
          AgentResponds(response)
    \/ Dispatch
    \/ ApiThrows(API_ERROR)
    \/ FinishSuite

SpecClient == InitClient /\ [][NextClient]_vars

-----------------------------------------------------------------------------
(* Properties of the Sandbox *)

Mutating == {"write", "edit", "delete"}

\* the position in log of the last write, edit or delete of path, 0 if none
LastMutation(log, path) ==
    LET hits == {i \in 1..Len(log) : log[i].path = path /\ log[i].type \in Mutating}
    IN  IF hits = {} THEN 0 ELSE CHOOSE i \in hits : \A j \in hits : j <= i

\* C1: a read of a path whose last logged change is write(p, c), with no edit,
\* delete or reset of p in between, returns exactly c and never 'absent'
C1_WriteReadRoundTrip ==
    ret.op = "read" =>
        LET log == Front(operations)
            i == LastMutation(log, ret.path)
        IN  (i # 0 /\ log[i].type = "write") => ret.result.value = log[i].content

C1_Witness ==
    /\ ret.op = "read"
    /\ Len(operations) >= 2
    /\ LET log == Front(operations)
           i == LastMutation(log, ret.path)
       IN  i # 0 /\ log[i].type = "write" /\ ret.result.value = log[i].content

\* the text with its first occurrence of old replaced by the literal text new
ReplaceFirstLiteral(content, old, new) ==
    LET i == IndexOf(content, old)
    IN  SubSeq(content, 1, i - 1) \o new \o Slice(content, i - 1 + Len(old))

\* C2: edit(p, old, new) fails with 'File not found' when p is no entry, with
\* 'Old content not found in file' when old is no substring of the content, and
\* otherwise replaces exactly the first occurrence of old by the literal text
\* new, every other entry unchanged
C2_EditContract ==
    [][\A p \in Spellings, e \in Edits :
          Edit(p, e[1], e[2]) =>
              IF ~Has(files, NP[p])
              THEN /\ ret'.result = [success |-> FALSE, message |-> "File not found"]
                   /\ files' = files
              ELSE IF ~Includes(files[NP[p]].content, e[1])
              THEN /\ ret'.result = [success |-> FALSE,
                                     message |-> "Old content not found in file"]
                   /\ files' = files
              ELSE /\ ret'.result.success
                   /\ DOMAIN files' = DOMAIN files
                   /\ files'[NP[p]].content =
                          ReplaceFirstLiteral(files[NP[p]].content, e[1], e[2])
                   /\ \A k \in DOMAIN files \ {NP[p]} : files'[k] = files[k]]_vars

\* C3: after reset, list("/") is empty and the operation log is empty
C3_ResetClears ==
    ret.op = "reset" =>
        /\ ListDirectory(files, <<SLASH>>) = {}
        /\ operations = <<>>

C3_Witness ==
    /\ ret.op = "reset"
    /\ DOMAIN files = {}
    /\ now = 2

\* the components a spelling denotes: resolved against the working root, with
\* empty and "." components dropped and ".." resolved
Logical(p) ==
    LET abs == IF StartsWith(p, <<SLASH>>) THEN p
               ELSE workingDirectory \o <<SLASH>> \o p
    IN  NormalizeString(Split(abs, SLASH), FALSE, <<>>)

C5_PathIdentity ==
    \A k \in DOMAIN files : \A p \in Spellings :
        Logical(p) = Logical(k) => NP[p] = k

-----------------------------------------------------------------------------
(* Properties of the evaluators *)

RegisteredNames == {evaluators[i].metricName : i \in DOMAIN evaluators}

\* C6: whatever units are registered (baseline or custom, returning any number
\* or throwing), evaluateAll returns a score for exactly the registered names,
\* each in [0, 10], and a unit that throws gets exactly 5
C6_EvaluateAllTotal ==
    [][EvaluateAll =>
          /\ DOMAIN scores' = RegisteredNames
          /\ \A n \in DOMAIN scores' : 0 <= scores'[n] /\ scores'[n] <= 10 * Scale
          /\ \A i \in DOMAIN evaluators :
                evaluators[i].kind = "throws" =>
                    scores'[evaluators[i].metricName] = 5 * Scale]_vars

\* C7: the correctness score is exactly 0 whenever the response is empty or
\* is the failure sentinel 'Test failed: ...', whatever the recovered and
\* unrecovered errors, the retry count and the expectedBehavior keywords
C7_FailedResponseScoresZero ==
    (/\ DOMAIN scores # {}
     /\ (result.response = EMPTY \/ StartsWith(result.response, TESTFAILED)))
        => scores["correctness"] = 0

C7_Witness ==
    /\ DOMAIN scores # {}
    /\ StartsWith(result.response, TESTFAILED)
    /\ Len(metricsRaw.errorsEncountered) = 2
    /\ metricsRaw.errorsEncountered[1].recovered
    /\ ~metricsRaw.errorsEncountered[2].recovered
    /\ metricsRaw.retryAttempts > 0
    /\ Truthy(test.expectedBehavior)
    /\ scores["correctness"] = 0

\* the tool invocations of a transcript, in order across all messages
RECURSIVE Invocations(_)
Invocations(messages) ==
    IF messages = <<>> THEN <<>>
    ELSE (IF Head(messages).toolCalls = Undefined THEN <<>> ELSE Head(messages).toolCalls[1])
           \o Invocations(Tail(messages))

SameInvocation(a, b) == a.toolName = b.toolName /\ a.parameters = b.parameters

\* C8: the retry count is the number of invocations with the same (tool name,
\* parameters) as the invocation immediately before, and the duplicate count
\* the number of invocations with the same (tool name, parameters) as any
\* earlier one, adjacent or not
C8_RetryAndDuplicateCounts ==
    LET calls == Invocations(conversation.messages)
    IN  /\ counts.retries.done =>
              counts.retries.value =
                  Cardinality({i \in 2..Len(calls) : SameInvocation(calls[i], calls[i - 1])})
        /\ counts.duplicates.done =>
              counts.duplicates.value =
                  Cardinality({i \in 1..Len(calls) :
                      \E j \in 1..(i - 1) : SameInvocation(calls[j], calls[i])})

\* a non-adjacent repeat: counted as a duplicate, not as a retry
C8_Witness ==
    /\ counts.retries.done
    /\ counts.duplicates.done
    /\ counts.retries.value = 0
    /\ counts.duplicates.value = 1
    /\ Len(Invocations(conversation.messages)) = 3

-----------------------------------------------------------------------------
(* Properties of a run *)

\* C9: when a test times out, the TestResult produced for it has
\* responseTimeMs >= the timeout in force, an ErrorEvent that tells of the
\* timeout among its raw metrics, and the correctness score 0
C9_TimeoutResult ==
    [][(\E output \in PartialOutputs : TimeoutFires(output)) =>
          LET r == results'[Len(results) + 1]
          IN  /\ r.testId = CurrentTest.id
              /\ r.responseTimeMs >= TimeoutOf(CurrentTest)
              /\ \E i \in DOMAIN r.metricsRaw.errorsEncountered :
                    \/ r.metricsRaw.errorsEncountered[i].type = "timeout"
                    \/ r.metricsRaw.errorsEncountered[i].message = PROCESS_TIMED_OUT
              /\ r.scores.correctness = 0]_vars

\* a TestResult with a response, non-negative counts, the nine scores each
\* in [0, 10], a transcript and raw metrics
WellFormed(r) ==
    /\ r.testRunId = testRunId
    /\ r.response \in Seq(STRING)
    /\ r.tokensInput >= 0 /\ r.tokensOutput >= 0 /\ r.responseTimeMs >= 0
    /\ DOMAIN r.scores = MetricNames
    /\ \A n \in MetricNames : 0 <= r.scores[n] /\ r.scores[n] <= 10 * Scale
    /\ DOMAIN r.conversation.messages = 1..Len(r.conversation.messages)
    /\ DOMAIN r.metricsRaw.errorsEncountered = 1..Len(r.metricsRaw.errorsEncountered)

CallbacksReturn ==
    \A c \in DOMAIN callbacks : callbacks[c] # "throws"

\* C10: however the execution of each test ends (a result, or an exception),
\* runTestSuite does not reject, it has one well-formed TestResult per test
\* done so far, in suite order, when it returns one per test of the suite,
\* and until then the next test can start
C10_OneResultPerTest ==
    CallbacksReturn =>
        /\ phase # "rejected"
        /\ Len(results) = completed
        /\ \A i \in 1..Len(results) :
              results[i].testId = suite[i].id /\ WellFormed(results[i])
        /\ phase = "returned" => Len(results) = Len(suite)
        /\ (phase = "loop" /\ completed < Len(suite)) => ENABLED BeginTest

\* the first test threw, the second returned a result, the suite returned
C10_Witness ==
    /\ phase = "returned"
    /\ Len(suite) = 2
    /\ Len(results) = 2
    /\ StartsWith(results[1].response, TESTFAILED)
    /\ results[2].scores.correctness # 0
    /\ callbacks.onTestComplete = "returns"

-----------------------------------------------------------------------------
(* Properties of the API orchestration loop *)

\* the call has a timeout and has run for longer
TimedOut(lp) == IsDefined(lp.timeout) /\ lp.elapsed > lp.timeout[1]

\* C11: once the time elapsed in a call with a configured timeout exceeds
\* the timeout, the loop issues no further turn: it does not go from the
\* dispatch of a turn's requests to another API call, and it does not
\* dispatch the requests of a response that arrives after that
C11_BoundedLoop ==
    [][TimedOut(loop) =>
          /\ (loop.pc = "dispatching" => loop'.pc # "awaiting")
          /\ (loop.pc = "awaiting" => loop'.pc # "dispatching")]_vars

\* C12: the dispatch of a tool request, failed or not, records a tool
\* result with the request's id and the call's result; when requests of the
\* turn remain, it leaves exactly those to dispatch; after the last one the
\* results of all the requests of the turn, in their order, are sent to the
\* agent in the next API call
C12_FailedCallDoesNotShortCircuit ==
    [][(loop.pc = "dispatching" /\ loop'.elapsed = loop.elapsed /\ loop' # loop) =>
          LET toolUse == Head(loop.toolUses)
              toolUses == loop.response[1].toolUses
              n == Len(toolUses)
              sent == loop'.currentMessages
          IN  IF Tail(loop.toolUses) # <<>>
              THEN /\ loop'.pc = "dispatching"
                   /\ loop'.toolUses = Tail(loop.toolUses)
                   /\ Len(loop'.toolResults) = Len(loop.toolResults) + 1
                   /\ Last(loop'.toolResults).tool_use_id = toolUse.id
                   /\ Last(loop'.toolResults).content
                         = ResultText(Last(loop'.assistantMessage[1].toolCalls[1]).result)
              ELSE /\ loop'.pc = "awaiting"
                   /\ Len(sent) = Len(loop.currentMessages) + 1 + n
                   /\ \A i \in 1..n :
                         /\ sent[Len(sent) - n + i].type = "tool_result"
                         /\ sent[Len(sent) - n + i].tool_use_id = toolUses[i].id
                         /\ sent[Len(sent) - n + i].content
                               = ResultText(Last(loop'.conversationMessages).toolCalls[1][i]
                                               .result)]_vars

\* a turn of two requests whose first call failed: the second request was
\* dispatched and succeeded, and the next API call is made
C12_Witness ==
    /\ loop.pc = "awaiting"
    /\ \E m \in {loop.conversationMessages[i] : i \in DOMAIN loop.conversationMessages} :
          /\ Len(m.toolCalls[1]) = 2
          /\ Failed(m.toolCalls[1][1])
          /\ ~Failed(m.toolCalls[1][2])

\* the requests of the turns of the call so far, turn by turn: those of the
\* turns sent back to the agent, then those of the turn being dispatched
TurnRequests(lp) ==
    LET past == SelectSeq(lp.currentMessages, LAMBDA cm : cm.type = "response")
    IN  [i \in DOMAIN past |-> past[i].content.toolUses]
        \o (IF IsDefined(lp.response) THEN <<lp.response[1].toolUses>> ELSE <<>>)

\* the tool calls recorded so far, turn by turn
TurnCalls(lp) ==
    LET past == SelectSeq(lp.conversationMessages, LAMBDA cm : cm.toolCalls[1] # <<>>)
    IN  [i \in DOMAIN past |-> past[i].toolCalls[1]]
        \o (IF IsDefined(lp.assistantMessage)
            THEN <<lp.assistantMessage[1].toolCalls[1]>> ELSE <<>>)

RECURSIVE Flatten(_)
Flatten(seqs) == IF seqs = <<>> THEN <<>> ELSE Head(seqs) \o Flatten(Tail(seqs))

\* the sandbox operation a request is logged as, if it is logged
LoggedAs(toolUse) ==
    LET path == Field(toolUse.input, <<"p", "a", "t", "h">>)
    IN  IF toolUse.name \in {FILE_WRITE, FILE_READ} /\ IsDefined(path)
        THEN << [type |-> IF toolUse.name = FILE_WRITE THEN "write" ELSE "read",
                 path |-> NP[path[1]]] >>
        ELSE <<>>

\* C13: during a call and after it, the tool calls recorded on each turn are
\* those of the turn's requests dispatched so far, in request order and one
\* per request; and the operation log of the sandbox holds the operations of
\* those requests in the order of the turns and, within a turn, of the requests
C13_DispatchInRequestOrder ==
    loop.pc # "idle" =>
        LET requests == TurnRequests(loop)
            calls == TurnCalls(loop)
            dispatched == [t \in DOMAIN calls |-> SubSeq(requests[t], 1, Len(calls[t]))]
        IN  /\ Len(calls) = Len(requests)
            /\ \A t \in DOMAIN calls :
                  /\ Len(calls[t]) <= Len(requests[t])
                  /\ t < Len(calls) => Len(calls[t]) = Len(requests[t])
                  /\ \A i \in DOMAIN calls[t] :
                        /\ calls[t][i].toolName = requests[t][i].name
                        /\ calls[t][i].parameters = requests[t][i].input
            /\ [i \in DOMAIN operations |->
                   [type |-> operations[i].type, path |-> operations[i].path]]
                 = Flatten([i \in DOMAIN Flatten(dispatched) |->
                              LoggedAs(Flatten(dispatched)[i])])

\* a turn of two requests, a write and then a read, both dispatched and logged
C13_Witness ==
    /\ loop.pc = "awaiting"
    /\ Len(loop.conversationMessages) = 1
    /\ Len(loop.conversationMessages[1].toolCalls[1]) = 2
    /\ Len(operations) = 2
    /\ operations[1].type = "write"
    /\ operations[2].type = "read"

\* the response carries the failure sentinel and every score is 0
FailedResult(r) ==
    /\ StartsWith(r.response, TESTFAILED)
    /\ \A n \in DOMAIN r.scores : r.scores[n] = 0

\* C14: when the agent process cannot be spawned, the result of the test
\* carries the failure sentinel and its scores are all zero
C14_TransportFailure ==
    [][ProcessError =>
          LET r == results'[Len(results) + 1]
          IN  r.testId = CurrentTest.id /\ FailedResult(r)]_vars

-----------------------------------------------------------------------------
(* Properties of the scores *)

\* the speed score of a duration d in milliseconds, in points
SpeedScore(d) ==
    IF d <= 2000 THEN 10
    ELSE IF d <= 5000 THEN 8
    ELSE IF d <= 10000 THEN 6
    ELSE IF d <= 20000 THEN 4
    ELSE Max(0, 3 - ((d - 20000) \div 10000))

RatioBand(inputTokens, outputTokens) ==
    IF 2 * outputTokens < inputTokens THEN 6
    ELSE IF outputTokens <= 3 * inputTokens THEN 10
    ELSE IF outputTokens <= 5 * inputTokens THEN 8
    ELSE 5 - Min(3, (outputTokens - 5 * inputTokens) \div (2 * inputTokens))

\* the sub-score of the total token volume
VolumeBand(totalTokens) ==
    IF totalTokens > 10000 THEN 5
    ELSE IF totalTokens > 5000 THEN 7
    ELSE IF totalTokens > 3000 THEN 9
    ELSE 10

\* the tool calls of a transcript that repeat an earlier call: all the calls
\* less the distinct pairs of tool name and parameters
DuplicateCalls(conv) ==
    LET calls == AllToolCalls(conv.messages)
    IN  Len(calls)
        - Cardinality({<<calls[i].toolName, calls[i].parameters>> : i \in DOMAIN calls})

Tokens(text) ==
    LET lower == ToLowerCase(text)
        n == Len(lower)
        starts == {i \in 1..n : lower[i] \in WordChars
                                 /\ (i = 1 \/ lower[i - 1] \notin WordChars)}
        End(i) == CHOOSE j \in i..n : j = n \/ lower[j + 1] \notin WordChars
    IN  [i \in starts |-> SubSeq(lower, i, End(i))]

\* the keywords of a text, each under the position where it starts
Keywords(text) ==
    LET tokens == Tokens(text)
    IN  [i \in {j \in DOMAIN tokens : Len(tokens[j]) > 3} |-> tokens[i]]

-----------------------------------------------------------------------------
(* Properties of a run of the process-based runner *)

\* C18: the summary runTestSuite returns counts the results, counts as
\* failed those whose correctness score is exactly 0 and as passed the
\* others, and its success rate is passed / total, 0 for no result
C18_RunSummary ==
    phase = "returned" =>
        LET s == summary[1]
            failed == {i \in DOMAIN results : results[i].scores.correctness = 0}
        IN  /\ s.totalTests = Len(results)
            /\ s.failedTests = Cardinality(failed)
            /\ s.passedTests = s.totalTests - s.failedTests
            /\ IF s.totalTests = 0 THEN s.successRate.num = 0
               ELSE s.successRate.num * s.totalTests = s.passedTests * s.successRate.den

\* a run returned with a result that failed and one that did not
C18_Witness ==
    /\ phase = "returned"
    /\ Len(results) = 2
    /\ summary[1].failedTests = 1
    /\ summary[1].passedTests = 1
    /\ summary[1].successRate = [num |-> 1, den |-> 2]

\* C19: for every result the runner holds, fs.rm was called on the
\* workspace of its test
C19_WorkspaceCleanup ==
    \A i \in DOMAIN results :
        \E t \in {suite[j] : j \in DOMAIN suite} :
            t.id = results[i].testId /\ workspaceId(t) \in cleanups

\* the runner holds the result of a test that timed out and the result of
\* a test whose set-up threw
C19_Witness ==
    /\ Len(results) = 2
    /\ EndsWith(results[1].response, TIMEOUT_MARK)
    /\ StartsWith(results[2].response, TESTFAILED)
    /\ Cardinality(cleanups) = 2

\* C20: whatever the callbacks do, runTestSuite is not made to reject, and
\* the results it holds are one per completed test, as without callbacks
C20_CallbacksDoNotInfluence ==
    /\ phase # "rejected"
    /\ Len(results) = completed
    /\ \A i \in DOMAIN results : results[i].testId = suite[i].id

-----------------------------------------------------------------------------
(* Properties of the registry *)

\* C21: registering a unit under a name that is already registered leaves
\* the set of registered names as it was and the name registered once, with
\* the new unit; evaluateAll then gives the name the score of the new unit
C21_ReRegisterReplaces ==
    [][\A u \in CustomUnits :
          (RegisterEvaluator(u) /\ u.metricName \in RegisteredNames) =>
              LET name == u.metricName
                  names == {evaluators'[i].metricName : i \in DOMAIN evaluators'}
                  outcome == Evaluate(u, test, result, conversation, metricsRaw)
                  after == evaluateAll(evaluators', NoScores, test, result,
                                       conversation, metricsRaw)
              IN  /\ names = RegisteredNames
                  /\ Cardinality({i \in DOMAIN evaluators' :
                                     evaluators'[i].metricName = name}) = 1
                  /\ \E i \in DOMAIN evaluators' : evaluators'[i] = u
                  /\ DOMAIN after = RegisteredNames
                  /\ after[name] = IF outcome.threw THEN 5 * Scale
                                   ELSE outcome.value]_vars

\* the baseline speed unit was replaced by one that throws, and evaluateAll
\* gave speed the 5 no speed evaluator returns
C21_Witness ==
    /\ \E i \in DOMAIN evaluators :
          evaluators[i].metricName = "speed" /\ evaluators[i].kind = "throws"
    /\ Cardinality(RegisteredNames) = Len(evaluators)
    /\ "speed" \in DOMAIN scores
    /\ scores.speed = 5 * Scale

-----------------------------------------------------------------------------
(* Properties of the end of the API orchestration loop *)

\* the call ended, or not, where a turn without tool requests came
EndsAtFirstTurnWithoutRequests ==
    LET cm == loop.conversationMessages
    IN  /\ \A i \in 1..(Len(cm) - 1) : cm[i].toolCalls[1] # <<>>
        /\ loop.pc \in {"awaiting", "dispatching"} =>
              (cm = <<>> \/ Last(cm).toolCalls[1] # <<>>)
        /\ loop.pc = "returned" =>
              /\ Len(cm) = loop.turns
              /\ Last(cm).toolCalls[1] = <<>>
              /\ loop.finalResponse = Last(cm).content
              /\ results[1].response = Last(cm).content
              /\ results[1].conversation.messages = cm
              /\ ~ENABLED Dispatch
              /\ ~ENABLED (\E response \in AgentResponses(MaxRequests) :
                              AgentResponds(response))

\* C22: the call returns exactly at the first turn of the agent without tool
\* requests: that step dispatches nothing, the response returned is the
\* text of that turn and the turn is the last message of the transcript;
\* after it no tool is dispatched and no turn is requested
C22_EndsAtFirstTurnWithoutRequests ==
    /\ []EndsAtFirstTurnWithoutRequests
    /\ [][\A response \in AgentResponses(MaxRequests) :
             AgentResponds(response) =>
                 /\ (response.requests = <<>>) <=> (loop'.pc = "returned")
                 /\ response.requests = <<>> =>
                       /\ operations' = operations
                       /\ files' = files
                       /\ results'[1].response = response.text
                       /\ Last(results'[1].conversation.messages).content
                             = response.text]_vars

\* a call returned at its second turn, after a first turn whose requests
\* were dispatched
C22_Witness ==
    /\ loop.pc = "returned"
    /\ Len(loop.conversationMessages) = 2
    /\ operations # <<>>
    /\ results[1].response = <<"d", "o", "n", "e">>

-----------------------------------------------------------------------------
(* Properties of listDirectory *)

\* the first path component after directory dir of every stored path
\* strictly below dir
ImmediateChildren(fs, dir) ==
    LET below == IF Last(dir) = SLASH THEN dir ELSE dir \o <<SLASH>>
    IN  {Split(Slice(k, Len(below)), SLASH)[1] :
            k \in {f \in DOMAIN fs : StartsWith(f, below) /\ Len(f) > Len(below)}}

\* C23: listing directory d returns exactly the immediate child names of d,
\* whole and once each, for the root "/" as for any other directory
C23_ListImmediateChildren ==
    [][\A d \in Dirs :
          List(d) => ret'.result.entries = ImmediateChildren(files, NP[d])]_vars

-----------------------------------------------------------------------------
(* Properties of the simulated shell *)

\* the first word of a command
CommandWord(command) == Split(command, SPACE)[1]

RecognizedWords == { <<"l", "s">>, <<"c", "a", "t">>, <<"e", "c", "h", "o">>, <<"p", "w", "d">> }

\* the command of the bash_execute request that is dispatched next
PendingCommand ==
    Field(NextToolUse(loop.toolUses).input, <<"c", "o", "m", "m", "a", "n", "d">>)[1]

DispatchesCommand ==
    /\ loop.pc = "dispatching"
    /\ NextToolUse(loop.toolUses).name = BASH_EXECUTE
    /\ Dispatch

\* C24: a command whose command word is not ls, cat, echo or pwd returns
\* the output "Command simulated: " followed by the command, with exit code
\* 0, and the sandbox is not touched: no operation is logged and no file
\* changes
C24_UnrecognizedCommandSimulated ==
    [][(DispatchesCommand /\ CommandWord(PendingCommand) \notin RecognizedWords) =>
          /\ Last(commandHistory').output = COMMAND_SIMULATED \o PendingCommand
          /\ Last(commandHistory').exitCode = 0
          /\ operations' = operations
          /\ files' = files]_vars

-----------------------------------------------------------------------------
(* Properties of the scores of a run *)

\* the result was made by createFailedResult
Synthesized(r) == StartsWith(r.response, TESTFAILED)

\* the scores the pipeline of evaluators gives to result r of test t
\* (a field the result does not have reads as undefined)
PipelineScores(t, r) ==
    LET given == [f \in DOMAIN r \cup {"tokensThinking"} |->
                     IF f = "scores" THEN NoScores
                     ELSE IF f \in DOMAIN r THEN r[f] ELSE Undefined]
    IN  evaluateAll(evaluators, NoScores, t, given, r.conversation, r.metricsRaw)

\* C25: the scores of every result that came out of an execution are those
\* evaluateAll computes, over the registered units, from the transcript and
\* the raw metrics of that test
C25_ScoresFromPipeline ==
    \A i \in DOMAIN results :
        ~Synthesized(results[i]) =>
            \E j \in DOMAIN suite :
                /\ suite[j].id = results[i].testId
                /\ results[i].scores = PipelineScores(suite[j], results[i])

-----------------------------------------------------------------------------
(* Properties of the errors of a transcript *)

\* the tool call failed in the sandbox or in the dispatcher: its result
\* reports an error or no success, or executeToolCall caught an exception
ToolFailed(call) ==
    \/ "error" \in DOMAIN call.result
    \/ "success" \in DOMAIN call.result /\ ~call.result.success
    \/ IsDefined(call.error)

\* the tool calls of the call in progress or returned, in transcript order
TranscriptCalls == AllToolCalls(loop.conversationMessages)

\* C26: every tool call that failed (a read of an absent path, an edit of an
\* unknown path or of a fragment that is not there, an unknown tool, an
\* exception) has a non-empty error field, and the metrics extracted from
\* the transcript hold one tool_error event for each of them
C26_ToolFailuresRecorded ==
    /\ \A i \in DOMAIN TranscriptCalls :
          ToolFailed(TranscriptCalls[i]) =>
              /\ IsDefined(TranscriptCalls[i].error)
              /\ TranscriptCalls[i].error[1] # EMPTY
    /\ loop.pc = "returned" =>
          LET events == results[1].metricsRaw.errorsEncountered
          IN  /\ \A i \in DOMAIN events : events[i].type = "tool_error"
              /\ Len(events) = Len(SelectSeq(TranscriptCalls, ToolFailed))

\* the positions, among the tool calls, of those whose error field is set
ErrorPositions(calls) ==
    {i \in DOMAIN calls : IsDefined(calls[i].error) /\ calls[i].error[1] # EMPTY}

\* the k-th smallest element of a set of numbers
RECURSIVE Nth(_, _)
Nth(S, k) ==
    LET least == CHOOSE i \in S : \A j \in S : i <= j
    IN  IF k = 1 THEN least ELSE Nth(S \ {least}, k - 1)

\* a later call of the transcript with the tool name and the parameters of
\* call i succeeded
RecoveredLater(calls, i) ==
    \E j \in (i + 1)..Len(calls) :
        /\ calls[j].toolName = calls[i].toolName
        /\ calls[j].parameters = calls[i].parameters
        /\ ~ToolFailed(calls[j])

\* C27: the errors extracted from a transcript are one tool_error event for
\* each tool call with a non-empty error field, in the order of the
\* transcript, each recovered exactly when a later call with the same tool
\* name and parameters succeeded
C27_ErrorExtraction ==
    counts.retries.done =>
        LET calls == AllToolCalls(conversation.messages)
            failed == ErrorPositions(calls)
            events == metricsRaw.errorsEncountered
        IN  /\ Len(events) = Cardinality(failed)
            /\ \A k \in DOMAIN events :
                  /\ events[k].type = "tool_error"
                  /\ events[k].message = calls[Nth(failed, k)].error[1]
                  /\ events[k].recovered <=> RecoveredLater(calls, Nth(failed, k))

-----------------------------------------------------------------------------
(* Properties of the token totals *)

\* the tokens of a kind recorded in a message of the transcript, 0 when the
\* message records none of that kind
RecordedTokens(message, kind) ==
    IF kind \in DOMAIN message.tokens THEN message.tokens[kind] ELSE 0

RECURSIVE SumOfTokens(_, _)
SumOfTokens(messages, kind) ==
    IF messages = <<>> THEN 0
    ELSE RecordedTokens(Head(messages), kind) + SumOfTokens(Tail(messages), kind)

\* C28: when the call has returned, its input, output and thinking token
\* totals are each the sum, over the turns of the transcript, of the tokens
\* of that kind recorded in the turn
C28_TokenAccounting ==
    loop.pc = "returned" =>
        LET r == results[1]
            messages == r.conversation.messages
        IN  /\ r.tokensInput = SumOfTokens(messages, "input")
            /\ r.tokensOutput = SumOfTokens(messages, "output")
            /\ r.tokensThinking = Some(SumOfTokens(messages, "thinking"))

\* a call returned after two turns that both reported their usage
C28_Witness ==
    /\ loop.pc = "returned"
    /\ Len(results[1].conversation.messages) = 2
    /\ results[1].tokensInput = 30 + 10
    /\ results[1].tokensOutput = 40 + 20

-----------------------------------------------------------------------------
(* Properties of the operation log *)

\* a call of write, read, edit or delete on the sandbox
SandboxCall ==
    \/ \E p \in Spellings, c \in Contents : Write(p, c)
    \/ \E p \in Spellings : Read(p)
    \/ \E p \in Spellings, e \in Edits : Edit(p, e[1], e[2])
    \/ \E p \in Spellings : Delete(p)

\* the call whose return value is r succeeded
CallSucceeded(r) ==
    IF r.op = "read" THEN r.result.value # Null ELSE r.result.success

\* C29: every call of read, write, edit or delete, whether it succeeds or
\* fails, appends exactly one operation to the log, of the kind of the call,
\* with the normalized path and the success of the call; and as long as
\* the sandbox is not reset the log only grows at its end
C29_LogRecordsEveryAccess ==
    [][/\ SandboxCall =>
             /\ Len(operations') = Len(operations) + 1
             /\ Front(operations') = operations
             /\ Last(operations').type = ret'.op
             /\ Last(operations').path = ret'.path
             /\ Last(operations').success = CallSucceeded(ret')
       /\ ~Reset =>
             /\ Len(operations) <= Len(operations')
             /\ SubSeq(operations', 1, Len(operations)) = operations]_vars

-----------------------------------------------------------------------------
(* Properties of the timeout of the agent process *)

\* C30: when the timer fires before the agent process closed, the process
\* is no longer running once the result of the test is returned and its
\* workspace is cleaned up
C30_TimeoutTerminatesProcess ==
    [][(\E output \in PartialOutputs : TimeoutFires(output)) =>
          /\ workspaceId(CurrentTest) \in cleanups'
          /\ Len(results') = Len(results) + 1
          /\ workspaceId(CurrentTest) \notin processes']_vars

-----------------------------------------------------------------------------
(* Properties of the result of a test that threw *)

\* r and q have the same fields, down to their scores, transcript and
\* raw metrics
SameStructure(r, q) ==
    /\ DOMAIN r = DOMAIN q
    /\ DOMAIN r.scores = DOMAIN q.scores
    /\ DOMAIN r.conversation = DOMAIN q.conversation
    /\ DOMAIN r.metricsRaw = DOMAIN q.metricsRaw

\* C31: the result made for a test whose execution threw has the structure
\* of a result of an execution, a response that begins with "Test failed:",
\* every score 0, no tokens, no duration and exactly one error event, not
\* recovered; the summary counts it as failed
C31_SynthesizedResult ==
    \A i \in DOMAIN results :
        Synthesized(results[i]) =>
            LET r == results[i]
            IN  /\ \A j \in DOMAIN results : SameStructure(r, results[j])
                /\ DOMAIN r.scores = MetricNames
                /\ \A n \in MetricNames : r.scores[n] = 0
                /\ r.tokensInput = 0 /\ r.tokensOutput = 0 /\ r.responseTimeMs = 0
                /\ Len(r.metricsRaw.errorsEncountered) = 1
                /\ ~r.metricsRaw.errorsEncountered[1].recovered
                /\ calculateSummary(<<r>>).failedTests = 1
                /\ phase = "returned" =>
                      summary[1].failedTests
                          >= Cardinality({k \in DOMAIN results : Synthesized(results[k])})

\* a run returned with the result of a test whose set-up threw and, after
\* it, the result of an execution
C31_Witness ==
    /\ phase = "returned"
    /\ Len(results) = 2
    /\ results[1].response = TESTFAILED \o <<" ">> \o MKDIR_ERROR
    /\ ~Synthesized(results[2])
    /\ summary[1].failedTests = 1

-----------------------------------------------------------------------------
(* Properties of the progress notifications *)

CallbacksGiven == \A c \in DOMAIN callbacks : callbacks[c] = "returns"

\* the calls an iteration on the i-th test makes when it is over
IterationCalls(i) ==
    << TestStart(suite[i]),
       TestComplete(suite[i], results[i]),
       ProgressMade(i, Len(suite)) >>

\* C32: with callbacks that return, the calls made are, test after test in
\* suite order, onTestStart, then onTestComplete with the result of the
\* test, then onProgress with the number of tests done (1, 2, ...) and the
\* number of tests of the suite; a test that is running has started after
\* the onProgress of the one before
C32_ProgressNotifications ==
    CallbacksGiven =>
        /\ Len(results) = completed
        /\ notified = Flatten([i \in 1..completed |-> IterationCalls(i)])
                         \o (IF phase = "running" THEN <<TestStart(CurrentTest)>>
                             ELSE <<>>)

\* the second test of a suite is running and the callbacks were called for
\* the first
C32_Witness ==
    /\ CallbacksGiven
    /\ phase = "running"
    /\ completed = 1
    /\ Len(notified) = 4
    /\ notified[3] = ProgressMade(1, 2)

-----------------------------------------------------------------------------
(* Properties of the messages sent to the agent *)

\* the dispatch of the last request of a turn: the next API call follows
TurnDispatched ==
    /\ Dispatch
    /\ loop'.pc = "awaiting"

\* C33: the messages sent to the agent on the next turn are those sent on
\* this turn, then the content of the response of this turn, then one tool
\* result for each of its tool requests, in request order and with the id
\* of the request; within a call no message sent before is dropped or
\* moved; and the transcript has one message for each turn of the agent
C33_TranscriptFeedback ==
    /\ [][TurnDispatched =>
             LET sent == loop.currentMessages
                 next == loop'.currentMessages
                 requests == loop.response[1].toolUses
             IN  /\ Len(next) = Len(sent) + 1 + Len(requests)
                 /\ SubSeq(next, 1, Len(sent)) = sent
                 /\ next[Len(sent) + 1].role = "assistant"
                 /\ next[Len(sent) + 1].content = loop.response[1]
                 /\ \A i \in DOMAIN requests :
                       /\ next[Len(sent) + 1 + i].type = "tool_result"
                       /\ next[Len(sent) + 1 + i].tool_use_id = requests[i].id
                 /\ Len(loop'.conversationMessages) = Len(loop.conversationMessages) + 1]_vars
    /\ [][(loop.pc \in {"awaiting", "dispatching"} /\ loop'.pc # "idle") =>
             /\ Len(loop'.currentMessages) >= Len(loop.currentMessages)
             /\ SubSeq(loop'.currentMessages, 1, Len(loop.currentMessages))
                   = loop.currentMessages]_vars
    /\ [](loop.pc \in {"awaiting", "returned"} =>
             Len(loop.conversationMessages) = loop.turns)

\* the second API call of a call is in flight, with the prompt, the first
\* response and the results of its two requests
C33_Witness ==
    /\ loop.pc = "awaiting"
    /\ loop.turns = 1
    /\ Len(loop.currentMessages) = 4
    /\ loop.currentMessages[3].tool_use_id = <<1, 1>>
    /\ loop.currentMessages[4].tool_use_id = <<1, 2>>

-----------------------------------------------------------------------------
(* Properties of delete *)

\* C34: after delete(p) a read of p returns null and the listings are those
\* of the other entries, which are as they were; a delete of a path that
\* has no entry changes no entry and reports success = false, in what it
\* returns and in the operation it logs
C34_DeleteContract ==
    [][\A p \in Spellings :
          Delete(p) =>
              LET k == NP[p]
                  others == [x \in DOMAIN files \ {k} |-> files[x]]
              IN  /\ ReadValue(files', k) = Null
                  /\ \A q \in Spellings : NP[q] = k => ReadValue(files', NP[q]) = Null
                  /\ \A x \in DOMAIN others : x \in DOMAIN files' /\ files'[x] = files[x]
                  /\ \A d \in Dirs : ListDirectory(files', d) = ListDirectory(others, d)
                  /\ Last(operations').type = "delete"
                  /\ Last(operations').path = k
                  /\ Last(operations').success = ret'.result.success
                  /\ ret'.result.success = (k \in DOMAIN files)
                  /\ k \notin DOMAIN files => files' = files]_vars

\* a file was written and then deleted under another spelling of its path
C34_Witness ==
    /\ ret.op = "delete"
    /\ ret.result.success
    /\ Len(operations) = 2
    /\ operations[1].type = "write"
    /\ operations[1].path = ret.path
    /\ files = NoFiles

\* C35: for every transcript the retry count is at most the duplicate count,
\* every invocation counted as a retry being one counted as a duplicate
C35_RetriesAreDuplicates ==
    LET calls == Invocations(conversation.messages)
        retried == {i \in 2..Len(calls) : SameInvocation(calls[i], calls[i - 1])}
        duplicated == {i \in 1..Len(calls) :
                          \E j \in 1..(i - 1) : Signature(calls[j]) = Signature(calls[i])}
    IN  /\ countRetries(conversation) <= countDuplicateToolCalls(conversation)
        /\ retried \subseteq duplicated
        /\ counts.retries.done /\ counts.duplicates.done =>
               /\ counts.retries.value <= counts.duplicates.value
               /\ counts.retries.value = Cardinality(retried)
               /\ counts.duplicates.value = Cardinality(duplicated)

\* a transcript of three identical invocations over two turns: two retries,
\* two duplicates
C35_Witness ==
    /\ counts.retries.done
    /\ counts.duplicates.done
    /\ counts.retries.value = 2
    /\ counts.duplicates.value = 2
    /\ Len(conversation.messages) = 2
    /\ Len(Invocations(conversation.messages)) = 3

\* the speed score of the result at hand, had it taken d milliseconds
SpeedAt(d) ==
    SpeedEvaluate(test, [result EXCEPT !.responseTimeMs = d], conversation, metricsRaw)

\* 50,000 ms: three penalty steps beyond the slow benchmark
ZERO_FROM == benchmarks.slow + 3 * 10000

\* C36: the speed score does not increase with the duration: a result gets
\* at most the score of every shorter duration and at least the score of
\* every longer one, and the score 0 from 50,000 ms on
C36_SpeedMonotone ==
    "speed" \in DOMAIN scores =>
        LET d2 == result.responseTimeMs
        IN  /\ scores.speed = SpeedAt(d2)
            /\ \A d1 \in Durations : d1 <= d2 => SpeedAt(d1) >= scores.speed
            /\ \A d3 \in Durations : d2 <= d3 => scores.speed >= SpeedAt(d3)
            /\ d2 >= ZERO_FROM => scores.speed = 0
            /\ d2 < ZERO_FROM => scores.speed > 0

\* the first duration scored 0, one millisecond after a duration scored 1
C36_Witness ==
    /\ "speed" \in DOMAIN scores
    /\ result.responseTimeMs = ZERO_FROM
    /\ scores.speed = 0
    /\ SpeedAt(ZERO_FROM - 1) = Scale

-----------------------------------------------------------------------------
(* Properties of the wait on the agent process *)

TimedOutValue(value) == value.error = Some(PROCESS_TIMED_OUT)

\* C37: the wait on the agent process resolves once, with the outcome of
\* the first of timer, close and error; a later event leaves the resolved
\* value and the results as they are; when close or error comes first the
\* timer is cleared, so that it never fires and no timeout outcome follows
C37_ResolvesOnce ==
    /\ [][\A w \in DOMAIN waits :
              LET was == waits[w]
                  is == waits'[w]
                  returned == results'[Len(results) + 1].response
              IN  /\ w \in DOMAIN waits'
                  /\ IsDefined(was.value) => is = was
                  /\ is # was =>
                        /\ phase = "running" /\ w = workspaceId(CurrentTest)
                        /\ IsDefined(is.value)
                        /\ returned = is.value[1].output
                        /\ is.timer = "fired" =>
                              /\ elapsed >= TimeoutOf(CurrentTest)
                              /\ \E output \in PartialOutputs :
                                    is.value[1] = TimeoutResult(output, elapsed)
                        /\ is.timer = "cleared" =>
                              \/ is.value[1] = ErrorResult(SPAWN_ERROR, elapsed)
                              \/ \E end \in ProcessEnds :
                                    is.value[1] = CloseResult(end.output, end.errorOutput,
                                                              end.code, elapsed)
                  /\ waits' = waits /\ processes' # processes =>
                        results' = results /\ phase' = phase]_vars
    /\ [](\A w \in DOMAIN waits :
              /\ waits[w].timer = "armed" <=> ~IsDefined(waits[w].value)
              /\ waits[w].timer = "fired" <=>
                     IsDefined(waits[w].value) /\ TimedOutValue(waits[w].value[1])
              /\ waits[w].timer = "cleared" <=>
                     IsDefined(waits[w].value) /\ ~TimedOutValue(waits[w].value[1])
              /\ ~IsDefined(waits[w].value) =>
                     phase = "running" /\ w = workspaceId(CurrentTest))

\* the runner returned after a process that outlived its timer closed, and
\* after one that could not be spawned emitted error and close: the first
\* wait is resolved with the timeout, the second with the error
C37_Witness ==
    /\ phase = "returned"
    /\ Len(suite) = 2
    /\ Len(results) = 2
    /\ DOMAIN waits = {workspaceId(suite[1]), workspaceId(suite[2])}
    /\ processes = {}
    /\ waits[workspaceId(suite[1])].timer = "fired"
    /\ TimedOutValue(waits[workspaceId(suite[1])].value[1])
    /\ results[1].response = <<"o", "k">> \o TIMEOUT_MARK
    /\ waits[workspaceId(suite[2])].timer = "cleared"
    /\ waits[workspaceId(suite[2])].value = Some(ErrorResult(SPAWN_ERROR, 0))
    /\ results[2].response = ErrorResult(SPAWN_ERROR, 0).output

-----------------------------------------------------------------------------
(* Properties of the simulated cat *)

CAT == <<"c", "a", "t">>

\* the bash_execute request dispatched next is cat with a path
DispatchesCat ==
    /\ DispatchesCommand
    /\ CommandWord(PendingCommand) = CAT
    /\ Len(Split(PendingCommand, SPACE)) >= 2

\* C38: cat of a path returns exit code 0 and the content of the entry
\* when the sandbox has an entry for the path, empty or not, and exit code
\* 1 with a No such file or directory message when it has none; it logs
\* exactly one read operation
C38_CatContract ==
    [][DispatchesCat =>
          LET path == Split(PendingCommand, SPACE)[2]
              execution == Last(commandHistory')
          IN  /\ Len(commandHistory') = Len(commandHistory) + 1
              /\ NP[path] \in DOMAIN files =>
                    /\ execution.exitCode = 0
                    /\ execution.output = files[NP[path]].content
              /\ NP[path] \notin DOMAIN files =>
                    /\ execution.exitCode = 1
                    /\ execution.output = CAT \o <<":", " ">> \o path \o NO_SUCH_FILE
              /\ Len(operations') = Len(operations) + 1
              /\ Last(operations').type = "read"
              /\ Last(operations').path = NP[path]
              /\ files' = files]_vars

-----------------------------------------------------------------------------
(* Properties of a failed edit *)

\* C39: an edit that fails, for a path without entry or a fragment that
\* is not in the content, leaves every entry as it was: no content and no
\* modification time changes, no entry is created and none is removed
C39_FailedEditChangesNothing ==
    [][(ret'.op = "edit" /\ ~ret'.result.success) =>
          /\ DOMAIN files' = DOMAIN files
          /\ \A k \in DOMAIN files :
                /\ files'[k].content = files[k].content
                /\ files'[k].modifiedAt = files[k].modifiedAt
                /\ files'[k] = files[k]
          /\ \/ ret' = ret
             \/ \E p \in Spellings, e \in Edits :
                   /\ ~Has(files, NP[p]) \/ ~Includes(files[NP[p]].content, e[1])
                   /\ Edit(p, e[1], e[2])]_vars

\* the fragment of an edit was not found in a file written at an earlier
\* time
C39_Witness ==
    /\ ret.op = "edit"
    /\ ~ret.result.success
    /\ ret.result.message = "Old content not found in file"
    /\ Has(files, ret.path)
    /\ files[ret.path].modifiedAt < now

====
